---- MODULE Spec2Model ----
(***************************************************************************)
(* Job Apply Agent: the run coordinator (index.js main), the application   *)
(* ledger (lib/state.js) and the four platform adapters (applyLinkedIn,    *)
(* applyIndeed, applyDice, applyJobright) as one state machine.            *)
(*                                                                         *)
(* The browser is the environment: every driver call whose result the code *)
(* branches on, and every driver call that is not wrapped in a try/catch,  *)
(* is a nondeterministic choice among the outcomes the code distinguishes. *)
(***************************************************************************)
EXTENDS Integers, Sequences, FiniteSets, TLC

(***************************************************************************)
(* Bounds of the model and configuration values.                           *)
(***************************************************************************)
\* cards returned by listing queries, over the whole behaviour
MaxCards == 2
\* config.behavior.maxRetries
maxRetries == 1
\* config.platforms[p].maxApplicationsPerRun
maxApplications == 2

\* const MAX_STEPS of applyLinkedIn and of applyIndeed
LinkedInMaxSteps == 12
IndeedMaxSteps == 8
\* const MAX_NO_NEW_JOBS of applyJobright
MAX_NO_NEW_JOBS == 3

Platforms == {"linkedin", "dice", "indeed", "jobright"}
Jobs == {"j1", "j2"}
\* extract*JobId returned null for the card
NoId == "null"
\* the pseudo job id of a block record
CaptchaJob == "captcha_detected"
\* the platform lists the enabled flags of config.platforms can produce
EnabledChoices ==
  { <<>>, <<"linkedin">>, <<"dice">>, <<"indeed">>, <<"jobright">>,
    <<"jobright", "linkedin">> }
\* what a listing query returns: job ids in page order, NoId for a card
\* without an extractable id
Listings == { <<"j1">>, <<"j1", "j2">>, <<"j1", "j1">>, <<NoId, "j2">> }

VARIABLES
  applications,      \* the applications table, in id order
  runs,              \* the runs table: per run, how often completedAt was set
  mainPc,            \* position of main()
  runId,             \* id of the current run (its index in runs)
  dryRun,            \* runtime.dryRun
  enabledPlatforms,  \* main's enabledPlatforms
  platIdx,           \* index of the platform being processed
  runStats,          \* main's runStats
  exitCode,          \* exit code of the last process, NotExited before its exit
  openContexts,      \* the number of browser contexts that are open
  pc,                \* position of the running platform function
  applied, skipped, errors,
  retryAttempts,     \* Map jobId -> retries made
  jobCards,          \* applyLinkedIn: cards of the listing; applyJobright: the loaded feed
  cardIdx,           \* applyLinkedIn: for-loop index
  cardsToProcess,    \* applyIndeed/applyDice queue, applyJobright unprocessedCards
  jobId,             \* the current card's job id
  pageHasMoreJobs,
  err,               \* the exception being handled by the catch block
  processedJobIds,   \* applyJobright
  noNewJobsCount,    \* applyJobright
  cardsListed,       \* cards returned by listing queries so far (bounded by MaxCards)
  attempts,          \* history: attempts started per job in this platform function
  handled,           \* history: jobs that reached a terminal outcome in it
  submitClicks,      \* history: real submissions made in it
  modal,             \* the step loop of one attempt, taken one step at a time
  filler             \* one call of fillForm on one rendered page

coordVars == <<runs, mainPc, runId, dryRun, enabledPlatforms, platIdx, runStats, exitCode, openContexts,
               modal, filler>>
loopVars == <<retryAttempts, jobCards, cardIdx, cardsToProcess, jobId, pageHasMoreJobs, err,
              processedJobIds, noNewJobsCount>>
countVars == <<applied, skipped, errors>>
histVars == <<attempts, handled, submitClicks>>
vars == <<applications, coordVars, pc, countVars, loopVars, cardsListed, histVars>>

(***************************************************************************)
(* The ledger (lib/state.js).                                              *)
(***************************************************************************)
SuccessStatuses == {"submitted", "already_applied", "dry_run"}

Row(p, j, s) == [platform |-> p, jobId |-> j, status |-> s, runId |-> runId]

\* the rows the SELECT of hasApplied matches, in id order
hasAppliedRows(p, j) ==
  SelectSeq(applications,
            LAMBDA r : r.platform = p /\ r.jobId = j /\ r.status \in SuccessStatuses)

\* last-write-wins: reads the latest_applications view
hasAppliedLatest(p, j) ==
  LET mine == SelectSeq(applications, LAMBDA r : r.platform = p /\ r.jobId = j)
  IN  mine # <<>> /\ mine[Len(mine)].status \in SuccessStatuses

\* only real submissions count: status = 'submitted'
hasAppliedSubmittedOnly(p, j) ==
  SelectSeq(applications,
            LAMBDA r : r.platform = p /\ r.jobId = j /\ r.status = "submitted") # <<>>

\* a dry run leaves no trace for later runs: status IN ('submitted', 'already_applied')
hasAppliedNoDryRun(p, j) ==
  SelectSeq(applications,
            LAMBDA r : r.platform = p /\ r.jobId = j
                         /\ r.status \in {"submitted", "already_applied"}) # <<>>

hasApplied(p, j) == hasAppliedRows(p, j) # <<>>

\* the v1 schema: one row per (platform, jobId), replaced on conflict
recordApplicationUpsert(row) ==
  applications' =
    Append(SelectSeq(applications,
                     LAMBDA r : ~(r.platform = row.platform /\ r.jobId = row.jobId)),
           row)

\* INSERT INTO applications: one new row with the next id
recordApplication(row) == applications' = Append(applications, row)

\* SELECT platform, status, COUNT(*) ... WHERE runId = ? GROUP BY platform, status
StatusCount(rid, p, s) ==
  Cardinality({i \in DOMAIN applications :
                 /\ applications[i].runId = rid
                 /\ applications[i].platform = p
                 /\ applications[i].status = s})

\* getRunStats(runId)[platform]
getRunStats(rid, p) ==
  [applied |-> StatusCount(rid, p, "submitted"),
   skipped |-> StatusCount(rid, p, "skipped"),
   errors |-> StatusCount(rid, p, "error"),
   dry_run |-> StatusCount(rid, p, "dry_run"),
   already_applied |-> StatusCount(rid, p, "already_applied")]

\* jobId TEXT NOT NULL: the INSERT of a row without job id raises
insertRejected(j) == j = NoId


(***************************************************************************)
(* The run coordinator (index.js main).                                    *)
(***************************************************************************)
Platform == enabledPlatforms[platIdx]

NoRetries == [j \in Jobs |-> 0]
NoAttempts == [j \in Jobs |-> 0]
ErrorStats == [applied |-> 0, skipped |-> 0, errors |-> 1]
\* runStats has no entry for the platform yet
NoStats == [applied |-> -1, skipped |-> -1, errors |-> -1]
\* runStats[platform] = null: the session of the platform has expired
NullStats == [applied |-> -2, skipped |-> -2, errors |-> -2]

\* the locals of a platform function before its first statement
FreshLocals ==
  /\ applied' = 0 /\ skipped' = 0 /\ errors' = 0
  /\ retryAttempts' = NoRetries
  /\ jobCards' = <<>> /\ cardIdx' = 1 /\ cardsToProcess' = <<>>
  /\ jobId' = NoId
  /\ pageHasMoreJobs' = TRUE /\ err' = "none"
  /\ processedJobIds' = {} /\ noNewJobsCount' = 0
  /\ attempts' = NoAttempts /\ handled' = {} /\ submitClicks' = 0

\* no step loop is being followed
NoModal == [pc |-> "none"]

\* no process has exited yet, or one is running
NotExited == [code |-> -1]

\* what lib/state.js exports
StateExports ==
  {"hasApplied", "recordApplication", "recordUnfilledField", "createRun", "completeRun",
   "getRunStats"}

\* printSummaryReport calls state.getRunStats and state.getUnfilledFieldsCount: a call
\* of a name the module does not export throws a TypeError
SummaryCompletes == {"getRunStats", "getUnfilledFieldsCount"} \subseteq StateExports

\* before the first run: an empty database, no process
InitProgram ==
  /\ applications = <<>>
  /\ runs = <<>>
  /\ mainPc = "exited"
  /\ exitCode = NotExited
  /\ runId = 0
  /\ dryRun = FALSE
  /\ enabledPlatforms = <<>>
  /\ platIdx = 1
  /\ runStats = [p \in Platforms |-> NoStats]
  /\ openContexts = 0
  /\ pc = "idle"
  /\ applied = 0 /\ skipped = 0 /\ errors = 0
  /\ retryAttempts = NoRetries
  /\ jobCards = <<>> /\ cardIdx = 1 /\ cardsToProcess = <<>>
  /\ jobId = NoId
  /\ pageHasMoreJobs = TRUE /\ err = "none"
  /\ cardsListed = 0
  /\ processedJobIds = {} /\ noNewJobsCount = 0
  /\ attempts = NoAttempts /\ handled = {} /\ submitClicks = 0

\* fillForm is not being followed
NoFiller == [pc |-> "none"]

Init == InitProgram /\ modal = NoModal /\ filler = NoFiller

\* node index.js: createRun, resolveRuntime, the enabledPlatforms filter
\* (config.json is the same file in every run, --dry-run is per run).
\* A further run is explored while cards remain to be listed, and only after
\* the runs before it listed at least one card each on average.
MainStart ==
  /\ mainPc = "exited"
  /\ cardsListed < MaxCards /\ Len(runs) <= cardsListed
  /\ runs' = Append(runs, 0)
  /\ runId' = Len(runs) + 1
  /\ \E d \in BOOLEAN : dryRun' = d
  /\ IF runs = <<>>
     THEN \E e \in EnabledChoices : enabledPlatforms' = e
     ELSE UNCHANGED enabledPlatforms
  /\ platIdx' = 1
  /\ runStats' = [p \in Platforms |-> NoStats]
  /\ mainPc' = "platforms"
  /\ exitCode' = NotExited
  /\ UNCHANGED <<applications, modal, filler, openContexts, pc, countVars, loopVars, cardsListed, histVars>>

\* process.exit(code): what the process held in memory is gone, and the
\* browsers it started end with it
Exit(code) ==
  /\ mainPc' = "exited"
  /\ openContexts' = 0
  /\ exitCode' = [code |-> code]
  /\ dryRun' = FALSE
  /\ platIdx' = 1
  /\ runStats' = [p \in Platforms |-> NoStats]

\* enabledPlatforms.length === 0: process.exit(2)
MainNoPlatform ==
  /\ mainPc = "platforms"
  /\ enabledPlatforms = <<>>
  /\ Exit(2)
  /\ UNCHANGED <<applications, modal, filler, runs, runId, enabledPlatforms,
                 pc, countVars, loopVars, cardsListed, histVars>>

\* what launchForPlatform can do: launchPersistentContext throws ("noContext"),
\* or the context is created and addInitScript or newPage throws ("contextThenThrow"),
\* or it returns the context and its page ("launched")
LaunchOutcomes == {"noContext", "contextThenThrow", "launched"}

\* launchForPlatform; when it throws, main's context is still null: the catch sets
\* the error summary and the finally block has nothing to close
MainLaunch ==
  /\ mainPc = "platforms"
  /\ platIdx <= Len(enabledPlatforms)
  /\ \E o \in LaunchOutcomes :
       IF o = "launched"
       THEN /\ openContexts' = openContexts + 1
            /\ mainPc' = "login"
            /\ UNCHANGED <<runStats, platIdx>>
       ELSE /\ runStats' = [runStats EXCEPT ![Platform] = ErrorStats]
            /\ platIdx' = platIdx + 1
            /\ openContexts' = openContexts + (IF o = "contextThenThrow" THEN 1 ELSE 0)
            /\ UNCHANGED mainPc
  /\ UNCHANGED <<applications, modal, filler, exitCode, runs, runId, dryRun, enabledPlatforms, pc, countVars,
                 loopVars, cardsListed, histVars>>

\* the null marker is set, but the context of the platform stays open
MainCheckLoginNoClose ==
  /\ mainPc = "login"
  /\ \E loggedIn \in BOOLEAN :
       IF loggedIn
       THEN /\ mainPc' = "apply"
            /\ pc' = "nav"
            /\ FreshLocals
            /\ UNCHANGED <<runStats, platIdx, openContexts>>
       ELSE /\ runStats' = [runStats EXCEPT ![Platform] = NullStats]
            /\ platIdx' = platIdx + 1
            /\ mainPc' = "platforms"
            /\ UNCHANGED <<openContexts, pc, countVars, loopVars, cardsListed, histVars>>
  /\ UNCHANGED <<applications, modal, filler, exitCode, runs, runId, dryRun, enabledPlatforms, cardsListed>>

\* checkLoginStatus, then either the null marker or the call of applyFn
MainCheckLogin ==
  /\ mainPc = "login"
  /\ \E loggedIn \in BOOLEAN :
       IF loggedIn
       THEN /\ mainPc' = "apply"
            /\ pc' = "nav"
            /\ FreshLocals
            /\ UNCHANGED <<runStats, platIdx, openContexts>>
       ELSE /\ runStats' = [runStats EXCEPT ![Platform] = NullStats]
            /\ openContexts' = openContexts - 1
            /\ platIdx' = platIdx + 1
            /\ mainPc' = "platforms"
            /\ UNCHANGED <<pc, countVars, loopVars, cardsListed, histVars>>
  /\ UNCHANGED <<applications, modal, filler, exitCode, runs, runId, dryRun, enabledPlatforms, cardsListed>>

\* a platform failure that ends the platform loop of main (models a rethrow)
MainPlatformDoneAbort ==
  /\ mainPc = "apply"
  /\ pc \in {"returned", "threw", "threwSetup"}
  /\ runStats' = [runStats EXCEPT ![Platform] =
                    IF pc = "returned"
                    THEN [applied |-> applied, skipped |-> skipped, errors |-> errors]
                    ELSE ErrorStats]
  /\ openContexts' = openContexts - 1
  /\ IF pc = "returned"
     THEN platIdx' = platIdx + 1 /\ mainPc' = "platforms"
     ELSE platIdx' = platIdx /\ mainPc' = "aborted"
  /\ pc' = "idle"
  /\ FreshLocals
  /\ UNCHANGED <<applications, modal, filler, exitCode, runs, runId, dryRun, enabledPlatforms, cardsListed>>

\* applyFn returned or threw: runStats[platform], finally context.close()
MainPlatformDone ==
  /\ mainPc = "apply"
  /\ pc \in {"returned", "threw", "threwSetup"}
  /\ runStats' = [runStats EXCEPT ![Platform] =
                    IF pc = "returned"
                    THEN [applied |-> applied, skipped |-> skipped, errors |-> errors]
                    ELSE ErrorStats]
  /\ openContexts' = openContexts - 1
  /\ platIdx' = platIdx + 1
  /\ mainPc' = "platforms"
  /\ pc' = "idle"
  /\ FreshLocals
  /\ UNCHANGED <<applications, modal, filler, exitCode, runs, runId, dryRun, enabledPlatforms, cardsListed>>

\* after the platform loop: completeRun, printSummaryReport, then process.exit(0),
\* or process.exit(1) in main().catch when the summary throws
MainFinish ==
  /\ mainPc = "platforms"
  /\ enabledPlatforms # <<>>
  /\ platIdx > Len(enabledPlatforms)
  /\ runs' = [runs EXCEPT ![runId] = @ + 1]
  /\ Exit(IF SummaryCompletes THEN 0 ELSE 1)
  /\ UNCHANGED <<applications, modal, filler, runId, enabledPlatforms,
                 pc, countVars, loopVars, cardsListed, histVars>>

(***************************************************************************)
(* Pieces shared by the platform functions.                                *)
(***************************************************************************)
Running(p) == mainPc = "apply" /\ Platform = p

Bump(f, j) == [f EXCEPT ![j] = @ + 1]

\* the status of a success record
SubmitStatus == IF dryRun THEN "dry_run" ELSE "submitted"

\* return { applied, skipped, errors }
Return == pc' = "returned"

\* the block branch without its return: the loop goes on
BlockedContinue(p) ==
  /\ recordApplication(Row(p, CaptchaJob, "captcha_blocked"))
  /\ pc' = "card"

\* block detected: one captcha_blocked row, then return
BlockedReturn(p) ==
  /\ recordApplication(Row(p, CaptchaJob, "captcha_blocked"))
  /\ Return

\* the row is written and the job is left, but no counter moves
OutcomeUncounted(j, status, da, ds, de, terminal, npc, e) ==
  /\ IF status = "none"
     THEN UNCHANGED applications
     ELSE recordApplication(Row(Platform, j, status))
  /\ UNCHANGED <<applied, skipped, errors>>
  /\ handled' = IF terminal THEN handled \cup {j} ELSE handled
  /\ pc' = npc
  /\ cardsListed' = cardsListed
  /\ jobId' = IF npc = "catch" THEN j ELSE NoId
  /\ err' = IF npc = "catch" THEN e ELSE "none"

\* What the processing of one card does: the row it writes (status "none":
\* no row), the counters, and where control goes next; on the way to the
\* catch block the job id and the exception are kept.
Outcome(j, status, da, ds, de, terminal, npc, e) ==
  /\ IF status = "none"
     THEN UNCHANGED applications
     ELSE recordApplication(Row(Platform, j, status))
  /\ applied' = applied + da /\ skipped' = skipped + ds /\ errors' = errors + de
  /\ handled' = IF terminal THEN handled \cup {j} ELSE handled
  /\ pc' = npc
  /\ cardsListed' = cardsListed
  /\ jobId' = IF npc = "catch" THEN j ELSE NoId
  /\ err' = IF npc = "catch" THEN e ELSE "none"

\* a navigation back to the listing that is not wrapped: it returns or throws
BackTo == {"card", "catch"}

(***************************************************************************)
(* Strings are sequences of one-character strings.                         *)
(***************************************************************************)
UpperChars == <<"A", "B", "C", "D", "E", "F", "G", "H", "I", "J", "K", "L", "M", "N", "O", "P", "Q", "R", "S", "T", "U", "V", "W", "X", "Y", "Z">>
LowerChars == <<"a", "b", "c", "d", "e", "f", "g", "h", "i", "j", "k", "l", "m", "n", "o", "p", "q", "r", "s", "t", "u", "v", "w", "x", "y", "z">>
DigitChars == {"0", "1", "2", "3", "4", "5", "6", "7", "8", "9"}

\* String.prototype.toLowerCase, on one character and on a string
LowerChar(c) ==
  IF \E i \in 1..Len(UpperChars) : UpperChars[i] = c
  THEN LowerChars[CHOOSE i \in 1..Len(UpperChars) : UpperChars[i] = c]
  ELSE c
toLowerCase(s) == [i \in 1..Len(s) |-> LowerChar(s[i])]

\* String.prototype.includes
Includes(s, part) ==
  \E i \in 1..(Len(s) - Len(part) + 1) : SubSeq(s, i, i + Len(part) - 1) = part

\* Array.prototype.find / findIndex: the first index whose test result is
\* true in a sequence of test results, 0 if there is none
FirstIndex(hits) ==
  IF \E i \in 1..Len(hits) : hits[i]
  THEN CHOOSE i \in 1..Len(hits) : hits[i] /\ \A k \in 1..(i - 1) : ~hits[k]
  ELSE 0

(***************************************************************************)
(* The multi-step form loop of applyLinkedIn and applyIndeed.              *)
(***************************************************************************)
\* a button of the page: its text, its aria-label, whether it is visible
Button(text, aria, visible) == [text |-> text, aria |-> aria, visible |-> visible]

SubmitButton(p, visible) ==
  IF p = "linkedin"
  THEN Button(<<"S", "u", "b", "m", "i", "t", " ", "a", "p", "p", "l", "i", "c", "a", "t", "i", "o", "n">>, <<"S", "u", "b", "m", "i", "t", " ", "a", "p", "p", "l", "i", "c", "a", "t", "i", "o", "n">>, visible)
  ELSE Button(<<"S", "u", "b", "m", "i", "t", " ", "y", "o", "u", "r", " ", "a", "p", "p", "l", "i", "c", "a", "t", "i", "o", "n">>, <<>>, visible)

NextButton(p, visible) ==
  IF p = "linkedin"
  THEN Button(<<"N", "e", "x", "t">>, <<"C", "o", "n", "t", "i", "n", "u", "e", " ", "t", "o", " ", "n", "e", "x", "t", " ", "s", "t", "e", "p">>, visible)
  ELSE Button(<<"C", "o", "n", "t", "i", "n", "u", "e">>, <<>>, visible)

\* a control of neither class
DismissButton(p, visible) ==
  IF p = "linkedin"
  THEN Button(<<>>, <<"D", "i", "s", "m", "i", "s", "s">>, visible)
  ELSE Button(<<"B", "a", "c", "k">>, <<>>, visible)

\* const buttonSelectors of handleModalStep and of handleIndeedStep: by
\* "aria" is button[aria-label="..."], by "text" is button:has-text("...")
buttonSelectors(p) ==
  IF p = "linkedin"
  THEN <<[by |-> "aria", text |-> <<"S", "u", "b", "m", "i", "t", " ", "a", "p", "p", "l", "i", "c", "a", "t", "i", "o", "n">>, action |-> "submit"],
         [by |-> "text", text |-> <<"S", "u", "b", "m", "i", "t", " ", "a", "p", "p", "l", "i", "c", "a", "t", "i", "o", "n">>, action |-> "submit"],
         [by |-> "aria", text |-> <<"R", "e", "v", "i", "e", "w", " ", "y", "o", "u", "r", " ", "a", "p", "p", "l", "i", "c", "a", "t", "i", "o", "n">>, action |-> "next"],
         [by |-> "text", text |-> <<"R", "e", "v", "i", "e", "w">>, action |-> "next"],
         [by |-> "aria", text |-> <<"C", "o", "n", "t", "i", "n", "u", "e", " ", "t", "o", " ", "n", "e", "x", "t", " ", "s", "t", "e", "p">>, action |-> "next"],
         [by |-> "text", text |-> <<"N", "e", "x", "t">>, action |-> "next"],
         [by |-> "text", text |-> <<"C", "o", "n", "t", "i", "n", "u", "e">>, action |-> "next"]>>
  ELSE <<[by |-> "text", text |-> <<"S", "u", "b", "m", "i", "t", " ", "y", "o", "u", "r", " ", "a", "p", "p", "l", "i", "c", "a", "t", "i", "o", "n">>, action |-> "submit"],
         [by |-> "text", text |-> <<"S", "u", "b", "m", "i", "t", " ", "a", "p", "p", "l", "i", "c", "a", "t", "i", "o", "n">>, action |-> "submit"],
         [by |-> "text", text |-> <<"A", "p", "p", "l", "y">>, action |-> "submit"],
         [by |-> "text", text |-> <<"C", "o", "n", "t", "i", "n", "u", "e">>, action |-> "next"],
         [by |-> "text", text |-> <<"N", "e", "x", "t">>, action |-> "next"]>>

\* the button matches the selector: the attribute selector compares the
\* aria-label exactly, :has-text looks for the text in any case
Matches(sel, btn) ==
  IF sel.by = "aria"
  THEN btn.aria = sel.text
  ELSE Includes(toLowerCase(btn.text), toLowerCase(sel.text))

\* page.$(selector): the first button of the page that matches, 0 for null
QueryFirst(sel, buttons) == FirstIndex([i \in 1..Len(buttons) |-> Matches(sel, buttons[i])])

\* btn && (await btn.isVisible())
Found(sel, buttons) ==
  /\ QueryFirst(sel, buttons) > 0
  /\ buttons[QueryFirst(sel, buttons)].visible

\* for (const { selector, action } of buttonSelectors): the first selector
\* whose button is found, 0 when the loop ends without one
ResolvedSelector(p, buttons) ==
  FirstIndex([k \in 1..Len(buttonSelectors(p)) |-> Found(buttonSelectors(p)[k], buttons)])

\* what handleModalStep / handleIndeedStep returns on the screen ("throws":
\* it raises); only handleModalStep looks for validation errors after the click
handleStep(p, screen) ==
  LET k == ResolvedSelector(p, screen.buttons)
  IN  IF screen.raises THEN "throws"
      ELSE IF k = 0 THEN "error"
      ELSE IF buttonSelectors(p)[k].action = "submit" THEN "submitted"
      ELSE IF p = "linkedin" /\ screen.postClickErrors THEN "validation_error"
      ELSE "next"

\* a screen with these buttons; unfilledFields: what fillForm returns as
\* unfilledFields on the screen
ScreenWith(fp, buttons) ==
  [fingerprint |-> fp, buttons |-> buttons, postClickErrors |-> FALSE, raises |-> FALSE,
   unfilledFields |-> <<>>]

\* the plain screen on which the step handler of either platform returns r
Screen(fp, r) ==
  [fingerprint |-> fp,
   buttons |-> CASE r = "submitted" -> <<Button(<<"S", "u", "b", "m", "i", "t", " ", "a", "p", "p", "l", "i", "c", "a", "t", "i", "o", "n">>, <<"S", "u", "b", "m", "i", "t", " ", "a", "p", "p", "l", "i", "c", "a", "t", "i", "o", "n">>, TRUE)>>
                 [] r \in {"next", "validation_error"} -> <<Button(<<"N", "e", "x", "t">>, <<"C", "o", "n", "t", "i", "n", "u", "e", " ", "t", "o", " ", "n", "e", "x", "t", " ", "s", "t", "e", "p">>, TRUE)>>
                 [] OTHER -> <<>>,
   postClickErrors |-> r = "validation_error",
   raises |-> r = "throws",
   unfilledFields |-> <<>>]

\* the free-text question that no knowledge-base key matches
EssayField == [fieldLabel |-> "Tell us why you want this role", fieldType |-> "text"]

\* the form with that question on its k-th screen (k = 0: on no screen)
WithEssay(form, k) ==
  [i \in 1..Len(form) |->
     IF i = k THEN [form[i] EXCEPT !.unfilledFields = <<EssayField>>] ELSE form[i]]

\* a form whose n-th screen is the first with a submit control
LongForm(n) == [i \in 1..n |-> IF i < n THEN Screen("", "next") ELSE Screen("", "submitted")]

MaxSteps(p) == IF p = "linkedin" THEN LinkedInMaxSteps ELSE IndeedMaxSteps

\* The forms a site serves: per step the fingerprint of the screen and what
\* handleModalStep / handleIndeedStep returns on it ("throws": it raises).
\* The last screen of a form is shown again on every later step.
Forms(p) ==
  { <<Screen("A", "submitted")>>,
    <<Screen("A", "next"), Screen("B", "submitted")>>,
    <<Screen("A", "next"), Screen("B", "next"), Screen("A", "submitted")>>,
    <<Screen("", "error")>>,
    <<Screen("A", "throws")>>,
    <<Screen("", "next")>>,
    <<Screen("A", "next"), Screen("B", "next")>>,
    LongForm(MaxSteps(p)),
    LongForm(MaxSteps(p) + 1) }
  \cup (IF p = "linkedin"
        THEN {<<Screen("A", "next"), Screen("B", "validation_error")>>}
        ELSE {})

FormStep(form, n) == form[IF n <= Len(form) THEN n ELSE Len(form)]

\* processed: the fingerprints of the screens handed to the step handler so far;
\* unfilled: the rows recordUnfilledField has inserted for the job
NewLoop == [stepCount |-> 0, seen |-> {}, clicks |-> 0, outcome |-> "running",
            processed |-> <<>>, unfilled |-> <<>>]

\* while (... && stepCount <= MAX_STEPS): one step too many
StepAllowedOffByOne(p, stepCount) == stepCount <= MaxSteps(p)

\* while (... && stepCount < MAX_STEPS)
StepAllowed(p, stepCount) == stepCount < MaxSteps(p)

\* if (fingerprint && seenFingerprints.has(fingerprint)) throw
Cycled(p, st, fp) == p = "linkedin" /\ fp # "" /\ fp \in st.seen

\* one evaluation of the loop condition and, if it holds, of the loop body
ModalIteration(p, dry, form, st) ==
  IF ~StepAllowed(p, st.stepCount)
  THEN [st EXCEPT !.outcome = "exceeded"]
  ELSE LET n == st.stepCount + 1
           screen == FormStep(form, n)
           result == handleStep(p, screen)
       IN  IF Cycled(p, st, screen.fingerprint)
           THEN [st EXCEPT !.stepCount = n, !.outcome = "cycled"]
           ELSE [stepCount |-> n,
                 seen |-> IF p = "linkedin" /\ screen.fingerprint # ""
                          THEN st.seen \cup {screen.fingerprint}
                          ELSE st.seen,
                 clicks |-> IF result = "submitted" /\ ~dry
                            THEN st.clicks + 1
                            ELSE st.clicks,
                 outcome |-> IF result = "next" THEN "running" ELSE result,
                 processed |-> Append(st.processed, screen.fingerprint),
                 unfilled |-> IF result = "throws"
                              THEN st.unfilled
                              ELSE st.unfilled \o screen.unfilledFields]

\* the loop run to its end
RECURSIVE ModalLoop(_, _, _, _)
ModalLoop(p, dry, form, st) ==
  IF st.outcome # "running"
  THEN st
  ELSE ModalLoop(p, dry, form, ModalIteration(p, dry, form, st))

(***************************************************************************)
(* applyLinkedIn (modules/linkedin.js).                                    *)
(***************************************************************************)
\* attemptsMade <= maxRetries, attemptsMade = (retryAttempts.get(jobId) || 0) + 1
RetryAllowed(j) == retryAttempts[j] + 1 <= maxRetries

\* page.goto(searchUrl), then the block check (LinkedIn, Indeed and Dice alike)
Navigate(p) ==
  /\ Running(p) /\ pc = "nav"
  /\ \E o \in {"throws", "blocked", "ok"} :
       CASE o = "throws" -> pc' = "threwSetup" /\ UNCHANGED applications
         [] o = "blocked" -> BlockedReturn(p)
         [] o = "ok" -> pc' = "outer" /\ UNCHANGED applications
  /\ UNCHANGED <<coordVars, countVars, loopVars, cardsListed, histVars>>

LinkedInNavigate == Navigate("linkedin")

\* the head of the outer while loop: wait for the list, query the cards
LinkedInOuter ==
  /\ Running("linkedin") /\ pc = "outer"
  /\ IF applied < maxApplications /\ pageHasMoreJobs
     THEN \/ pc' = "returned" /\ UNCHANGED <<jobCards, cardIdx, cardsListed>>
          \/ pc' = "threw" /\ UNCHANGED <<jobCards, cardIdx, cardsListed>>
          \/ \E l \in Listings :
               /\ cardsListed + Len(l) <= MaxCards
               /\ cardsListed' = cardsListed + Len(l)
               /\ jobCards' = l /\ cardIdx' = 1
               /\ pc' = "card"
          \/ \* the list holds no job card
             /\ jobCards' = <<>> /\ cardIdx' = 1
             /\ pc' = "card"
             /\ UNCHANGED cardsListed
     ELSE pc' = "returned" /\ UNCHANGED <<jobCards, cardIdx, cardsListed>>
  /\ UNCHANGED <<applications, coordVars, countVars, retryAttempts, cardsToProcess, jobId,
                 pageHasMoreJobs, err, processedJobIds, noNewJobsCount, histVars>>

\* one iteration of the for loop, up to the end of its try block
LinkedInCard ==
  /\ Running("linkedin") /\ pc = "card"
  /\ IF cardIdx <= Len(jobCards) /\ applied < maxApplications
     THEN LET j == jobCards[cardIdx]
              next == cardIdx + 1
          IN
          \/ \* the re-query throws: pageAlive = false
             /\ Outcome(j, "none", 0, 0, 0, FALSE, "returned", "none")
             /\ UNCHANGED <<cardIdx, attempts, submitClicks>>
          \/ \* the card list shrank
             /\ Outcome(j, "none", 0, 0, 0, FALSE, "paginate", "none")
             /\ UNCHANGED <<cardIdx, attempts, submitClicks>>
          \/ \* extractJobId throws
             /\ Outcome(j, "none", 0, 1, 0, FALSE, "card", "none")
             /\ cardIdx' = next
             /\ UNCHANGED <<attempts, submitClicks>>
          \/ \* no job id
             /\ j = NoId
             /\ Outcome(j, "none", 0, 1, 0, FALSE, "card", "none")
             /\ cardIdx' = next
             /\ UNCHANGED <<attempts, submitClicks>>
          \/ \* state.hasApplied
             /\ j # NoId /\ hasApplied("linkedin", j)
             /\ Outcome(j, "already_applied", 0, 1, 0, TRUE, "card", "none")
             /\ cardIdx' = next
             /\ UNCHANGED <<attempts, submitClicks>>
          \/ /\ j # NoId /\ ~hasApplied("linkedin", j)
             /\ attempts' = Bump(attempts, j)
             /\ \/ \* a driver call of the try block throws, or the modal does not open
                   /\ Outcome(j, "none", 0, 0, 0, FALSE, "catch", "throws")
                   /\ UNCHANGED <<cardIdx, submitClicks>>
                \/ \* no Easy Apply button
                   /\ Outcome(j, "skipped", 0, 1, 0, TRUE, "card", "none")
                   /\ cardIdx' = next
                   /\ UNCHANGED submitClicks
                \/ \* Easy Apply button not visible
                   /\ Outcome(j, "none", 0, 1, 0, TRUE, "card", "none")
                   /\ cardIdx' = next
                   /\ UNCHANGED submitClicks
                \/ \* the button or the modal says the job was applied to
                   /\ Outcome(j, "already_applied", 0, 1, 0, TRUE, "card", "none")
                   /\ cardIdx' = next
                   /\ UNCHANGED submitClicks
                \/ \* the modal opened: the step loop
                   \E form \in Forms("linkedin") :
                     LET r == ModalLoop("linkedin", dryRun, form, NewLoop)
                     IN  IF r.outcome = "submitted"
                         THEN /\ Outcome(j, SubmitStatus, 1, 0, 0, TRUE, "card", "none")
                              /\ submitClicks' = submitClicks + r.clicks
                              /\ cardIdx' = next
                         ELSE /\ Outcome(j, "none", 0, 0, 0, FALSE, "catch", r.outcome)
                              /\ UNCHANGED <<cardIdx, submitClicks>>
     ELSE /\ pc' = "paginate"
          /\ UNCHANGED <<applications, countVars, cardIdx, jobId, err, cardsListed, histVars>>
  /\ UNCHANGED <<coordVars, retryAttempts, jobCards, cardsToProcess, pageHasMoreJobs,
                 processedJobIds, noNewJobsCount>>

\* the catch block: close the modal, captcha check, retry or error record
LinkedInCatch ==
  /\ Running("linkedin") /\ pc = "catch"
  /\ \/ /\ BlockedReturn("linkedin")
        /\ UNCHANGED <<errors, retryAttempts, cardIdx, handled>>
     \/ IF RetryAllowed(jobId)
        THEN /\ retryAttempts' = Bump(retryAttempts, jobId)
             /\ pc' = "card"
             /\ UNCHANGED <<applications, errors, cardIdx, handled>>
        ELSE /\ errors' = errors + 1
             /\ recordApplication(Row("linkedin", jobId, "error"))
             /\ handled' = handled \cup {jobId}
             /\ cardIdx' = cardIdx + 1
             /\ pc' = "card"
             /\ UNCHANGED retryAttempts
  /\ jobId' = NoId /\ err' = "none"
  /\ UNCHANGED <<coordVars, applied, skipped, jobCards, cardsToProcess, pageHasMoreJobs,
                 processedJobIds, noNewJobsCount, cardsListed, attempts, submitClicks>>

\* after the for loop: See more jobs, or scroll the list
LinkedInPaginate ==
  /\ Running("linkedin") /\ pc = "paginate"
  /\ IF applied < maxApplications
     THEN \/ pc' = "threw" /\ UNCHANGED pageHasMoreJobs
          \/ pc' = "outer" /\ UNCHANGED pageHasMoreJobs
          \/ pc' = "outer" /\ pageHasMoreJobs' = FALSE
     ELSE pc' = "outer" /\ UNCHANGED pageHasMoreJobs
  /\ jobCards' = <<>> /\ cardIdx' = 1
  /\ UNCHANGED <<applications, coordVars, countVars, retryAttempts, cardsToProcess, jobId,
                 err, processedJobIds, noNewJobsCount, cardsListed, histVars>>

applyLinkedIn ==
  \/ LinkedInNavigate
  \/ LinkedInOuter
  \/ LinkedInCard
  \/ LinkedInCatch
  \/ LinkedInPaginate

(***************************************************************************)
(* applyIndeed (modules/indeed.js) and applyDice (modules/dice.js): the    *)
(* cards of a page are a queue; a retry puts the card at its end.          *)
(***************************************************************************)
\* the head of the outer while loop: wait for the cards, query them
QueueOuter(p) ==
  /\ Running(p) /\ pc = "outer"
  /\ IF applied < maxApplications /\ pageHasMoreJobs
     THEN \/ pc' = "returned" /\ UNCHANGED <<cardsToProcess, cardsListed>>
          \/ pc' = "threw" /\ UNCHANGED <<cardsToProcess, cardsListed>>
          \/ \E l \in Listings :
               /\ cardsListed + Len(l) <= MaxCards
               /\ cardsListed' = cardsListed + Len(l)
               /\ cardsToProcess' = l
               /\ pc' = "card"
     ELSE pc' = "returned" /\ UNCHANGED <<cardsToProcess, cardsListed>>
  /\ UNCHANGED <<applications, coordVars, countVars, retryAttempts, jobCards, cardIdx, jobId,
                 pageHasMoreJobs, err, processedJobIds, noNewJobsCount, histVars>>

\* the catch block: back to the results, block check, retry or error record
QueueCatch(p) ==
  /\ Running(p) /\ pc = "catch"
  /\ \/ /\ BlockedReturn(p)
        /\ UNCHANGED <<errors, retryAttempts, cardsToProcess, handled>>
     \/ IF jobId # NoId /\ RetryAllowed(jobId)
        THEN /\ retryAttempts' = Bump(retryAttempts, jobId)
             /\ cardsToProcess' = Append(cardsToProcess, jobId)
             /\ pc' = "card"
             /\ UNCHANGED <<applications, errors, handled>>
        ELSE /\ errors' = errors + 1
             /\ IF insertRejected(jobId)
                THEN pc' = "threw" /\ UNCHANGED <<applications, handled>>
                ELSE /\ recordApplication(Row(p, jobId, "error"))
                     /\ handled' = handled \cup {jobId}
                     /\ pc' = "card"
             /\ UNCHANGED <<retryAttempts, cardsToProcess>>
  /\ jobId' = NoId /\ err' = "none"
  /\ UNCHANGED <<coordVars, applied, skipped, jobCards, cardIdx, pageHasMoreJobs,
                 processedJobIds, noNewJobsCount, cardsListed, attempts, submitClicks>>

\* after the inner loop: the link to the next page, inside try/catch
QueuePaginate(p) ==
  /\ Running(p) /\ pc = "paginate"
  /\ IF applied < maxApplications
     THEN \E more \in BOOLEAN : pageHasMoreJobs' = more
     ELSE UNCHANGED pageHasMoreJobs
  /\ pc' = "outer"
  /\ cardsToProcess' = <<>>
  /\ UNCHANGED <<applications, coordVars, countVars, retryAttempts, jobCards, cardIdx, jobId,
                 err, processedJobIds, noNewJobsCount, cardsListed, histVars>>

\* what a queue adapter leaves alone while it processes a card
QueueCardFrame ==
  UNCHANGED <<coordVars, retryAttempts, jobCards, cardIdx, pageHasMoreJobs,
              processedJobIds, noNewJobsCount>>

IndeedNavigate == Navigate("indeed")
IndeedOuter == QueueOuter("indeed")

\* one iteration of the inner while loop of applyIndeed, up to the end of its try block
IndeedCard ==
  /\ Running("indeed") /\ pc = "card"
  /\ IF cardsToProcess # <<>> /\ applied < maxApplications
     THEN LET j == Head(cardsToProcess)
          IN
          /\ cardsToProcess' = Tail(cardsToProcess)
          /\ \/ \* extractIndeedJobId throws: jobId stays null
                /\ Outcome(NoId, "none", 0, 0, 0, FALSE, "catch", "throws")
                /\ UNCHANGED <<attempts, submitClicks>>
             \/ \* no job id
                /\ j = NoId
                /\ Outcome(j, "none", 0, 1, 0, FALSE, "card", "none")
                /\ UNCHANGED <<attempts, submitClicks>>
             \/ \* state.hasApplied
                /\ j # NoId /\ hasApplied("indeed", j)
                /\ Outcome(j, "already_applied", 0, 1, 0, TRUE, "card", "none")
                /\ UNCHANGED <<attempts, submitClicks>>
             \/ /\ j # NoId /\ ~hasApplied("indeed", j)
                /\ attempts' = Bump(attempts, j)
                /\ \/ \* a driver call of the try block throws
                      /\ Outcome(j, "none", 0, 0, 0, FALSE, "catch", "throws")
                      /\ UNCHANGED submitClicks
                   \/ \* no "Easily apply" badge
                      /\ Outcome(j, "skipped", 0, 1, 0, TRUE, "card", "none")
                      /\ UNCHANGED submitClicks
                   \/ \* apply button missing or not visible
                      /\ Outcome(j, "none", 0, 1, 0, TRUE, "card", "none")
                      /\ UNCHANGED submitClicks
                   \/ \* redirected to an external site, then page.goto(searchUrl)
                      /\ \E back \in BackTo :
                           Outcome(j, "skipped", 0, 1, 0, TRUE, back, "throws")
                      /\ UNCHANGED submitClicks
                   \/ \* the "already applied" interstitial
                      /\ Outcome(j, "already_applied", 0, 1, 0, TRUE, "card", "none")
                      /\ UNCHANGED submitClicks
                   \/ \* bot detection during the apply flow
                      /\ BlockedReturn("indeed")
                      /\ jobId' = NoId
                      /\ UNCHANGED <<countVars, err, cardsListed, handled, submitClicks>>
                   \/ \* the form loaded: the step loop, then page.goto(searchUrl)
                      \E form \in Forms("indeed") :
                        LET r == ModalLoop("indeed", dryRun, form, NewLoop)
                        IN  IF r.outcome = "submitted"
                            THEN /\ \E back \in BackTo :
                                      Outcome(j, SubmitStatus, 1, 0, 0, TRUE, back, "throws")
                                 /\ submitClicks' = submitClicks + r.clicks
                            ELSE /\ Outcome(j, "none", 0, 0, 0, FALSE, "catch", r.outcome)
                                 /\ UNCHANGED submitClicks
     ELSE /\ pc' = "paginate"
          /\ UNCHANGED <<applications, countVars, cardsToProcess, jobId, err, cardsListed, histVars>>
  /\ QueueCardFrame

IndeedCatch == QueueCatch("indeed")
IndeedPaginate == QueuePaginate("indeed")

applyIndeed ==
  \/ IndeedNavigate
  \/ IndeedOuter
  \/ IndeedCard
  \/ IndeedCatch
  \/ IndeedPaginate

DiceNavigate == Navigate("dice")
DiceOuter == QueueOuter("dice")

\* one iteration of the inner while loop of applyDice, up to the end of its try block
DiceCard ==
  /\ Running("dice") /\ pc = "card"
  /\ IF cardsToProcess # <<>> /\ applied < maxApplications
     THEN LET j == Head(cardsToProcess)
          IN
          /\ cardsToProcess' = Tail(cardsToProcess)
          /\ \/ \* extractDiceJobId throws: jobId stays null
                /\ Outcome(NoId, "none", 0, 0, 0, FALSE, "catch", "throws")
                /\ UNCHANGED <<attempts, submitClicks>>
             \/ \* no job id
                /\ j = NoId
                /\ Outcome(j, "none", 0, 1, 0, FALSE, "card", "none")
                /\ UNCHANGED <<attempts, submitClicks>>
             \/ \* state.hasApplied
                /\ j # NoId /\ hasApplied("dice", j)
                /\ Outcome(j, "already_applied", 0, 1, 0, TRUE, "card", "none")
                /\ UNCHANGED <<attempts, submitClicks>>
             \/ /\ j # NoId /\ ~hasApplied("dice", j)
                /\ attempts' = Bump(attempts, j)
                /\ \/ \* a driver call throws, the modal does not open, no submit button
                      /\ Outcome(j, "none", 0, 0, 0, FALSE, "catch", "throws")
                      /\ UNCHANGED submitClicks
                   \/ \* no link to the job detail page
                      /\ Outcome(j, "none", 0, 1, 0, TRUE, "card", "none")
                      /\ UNCHANGED submitClicks
                   \/ \* blocked page after the navigation to the detail page
                      /\ BlockedReturn("dice")
                      /\ jobId' = NoId
                      /\ UNCHANGED <<countVars, err, cardsListed, handled, submitClicks>>
                   \/ \* incomplete profile, no Easy Apply button, external redirect:
                      \* a skipped row, then page.goBack / page.goto
                      /\ \E back \in BackTo :
                           Outcome(j, "skipped", 0, 1, 0, TRUE, back, "throws")
                      /\ UNCHANGED submitClicks
                   \/ \* the button says Applied: a row, then page.goBack
                      /\ \E back \in BackTo :
                           Outcome(j, "already_applied", 0, 1, 0, TRUE, back, "throws")
                      /\ UNCHANGED submitClicks
                   \/ \* the single-screen modal: close or submit, the row, applied++,
                      \* then page.goto(searchUrl)
                      /\ \E back \in BackTo :
                           Outcome(j, SubmitStatus, 1, 0, 0, TRUE, back, "throws")
                      /\ submitClicks' = submitClicks + (IF dryRun THEN 0 ELSE 1)
     ELSE /\ pc' = "paginate"
          /\ UNCHANGED <<applications, countVars, cardsToProcess, jobId, err, cardsListed, histVars>>
  /\ QueueCardFrame

DiceCatch == QueueCatch("dice")
DicePaginate == QueuePaginate("dice")

applyDice ==
  \/ DiceNavigate
  \/ DiceOuter
  \/ DiceCard
  \/ DiceCatch
  \/ DicePaginate

(***************************************************************************)
(* applyJobright (modules/jobright.js).                                    *)
(***************************************************************************)
\* page.goto, the login wall, the challenge check
JobrightNavigate ==
  /\ Running("jobright") /\ pc = "nav"
  /\ \E o \in {"throws", "loginWall", "challenged", "ok"} :
       CASE o = "throws" -> pc' = "threwSetup" /\ UNCHANGED applications
         [] o = "challenged" -> BlockedReturn("jobright")
         [] o = "loginWall" -> Return /\ UNCHANGED applications
         [] o = "ok" -> pc' = "feed" /\ UNCHANGED applications
  /\ UNCHANGED <<coordVars, countVars, loopVars, cardsListed, histVars>>

\* the wait for the job feed: no card within the timeout ends the function
JobrightFeed ==
  /\ Running("jobright") /\ pc = "feed"
  /\ \/ Return
     \/ pc' = "outer"
  /\ UNCHANGED <<applications, coordVars, countVars, loopVars, cardsListed, histVars>>

\* the cards of the feed that have an id not yet in processedJobIds
Unprocessed(feed) ==
  SelectSeq(feed, LAMBDA j : j # NoId /\ j \notin processedJobIds)

\* one pass of the while loop up to the for loop: all cards, the unprocessed
\* ones, or else a scroll for more
JobrightOuter ==
  /\ Running("jobright") /\ pc = "outer"
  /\ IF applied < maxApplications
     THEN \/ \* page.$$, extractJobrightJobId or the scroll throws
             /\ pc' = "threw"
             /\ UNCHANGED <<jobCards, cardsToProcess, noNewJobsCount, cardsListed>>
          \/ \* the feed as first loaded
             /\ jobCards = <<>>
             /\ \E l \in Listings :
                  /\ cardsListed + Len(l) <= MaxCards
                  /\ cardsListed' = cardsListed + Len(l)
                  /\ jobCards' = l
             /\ pc' = "outer"
             /\ UNCHANGED <<cardsToProcess, noNewJobsCount>>
          \/ /\ jobCards # <<>>
             /\ IF Unprocessed(jobCards) = <<>>
                THEN \/ \* the scroll loaded nothing
                        /\ noNewJobsCount' = noNewJobsCount + 1
                        /\ pc' = IF noNewJobsCount + 1 >= MAX_NO_NEW_JOBS
                                 THEN "returned"
                                 ELSE "outer"
                        /\ UNCHANGED <<jobCards, cardsToProcess, cardsListed>>
                     \/ \* the scroll loaded more cards
                        /\ \E l \in Listings :
                             /\ cardsListed + Len(l) <= MaxCards
                             /\ cardsListed' = cardsListed + Len(l)
                             /\ jobCards' = jobCards \o l
                        /\ noNewJobsCount' = 0
                        /\ pc' = "outer"
                        /\ UNCHANGED cardsToProcess
                ELSE /\ noNewJobsCount' = 0
                     /\ cardsToProcess' = Unprocessed(jobCards)
                     /\ pc' = "card"
                     /\ UNCHANGED <<jobCards, cardsListed>>
     ELSE /\ pc' = "returned"
          /\ UNCHANGED <<jobCards, cardsToProcess, noNewJobsCount, cardsListed>>
  /\ UNCHANGED <<applications, coordVars, countVars, retryAttempts, cardIdx, jobId,
                 pageHasMoreJobs, err, processedJobIds, histVars>>

\* one iteration of the for loop over unprocessedCards, up to the end of its try block
JobrightCard ==
  /\ Running("jobright") /\ pc = "card"
  /\ IF cardsToProcess # <<>> /\ applied < maxApplications
     THEN LET j == Head(cardsToProcess)
          IN
          /\ cardsToProcess' = Tail(cardsToProcess)
          /\ processedJobIds' = processedJobIds \cup {j}
          /\ \/ \* state.hasApplied
                /\ hasApplied("jobright", j)
                /\ Outcome(j, "already_applied", 0, 1, 0, TRUE, "card", "none")
                /\ UNCHANGED <<attempts, submitClicks>>
             \/ /\ ~hasApplied("jobright", j)
                /\ attempts' = Bump(attempts, j)
                /\ \/ \* a driver call throws, or neither submit button nor confirmation
                      /\ Outcome(j, "none", 0, 0, 0, FALSE, "catch", "throws")
                      /\ UNCHANGED submitClicks
                   \/ \* external site before or after the click on Apply:
                      \* a skipped row, then page.goBack / page.goto
                      /\ \E back \in BackTo :
                           Outcome(j, "skipped", 0, 1, 0, TRUE, back, "throws")
                      /\ UNCHANGED submitClicks
                   \/ \* no Apply button visible: skipped++, then page.goBack
                      /\ \E back \in BackTo :
                           Outcome(j, "none", 0, 1, 0, TRUE, back, "throws")
                      /\ UNCHANGED submitClicks
                   \/ \* the button says Applied: a row, then page.goBack
                      /\ \E back \in BackTo :
                           Outcome(j, "already_applied", 0, 1, 0, TRUE, back, "throws")
                      /\ UNCHANGED submitClicks
                   \/ \* the click on Apply submitted the application by itself
                      /\ \E back \in BackTo :
                           Outcome(j, SubmitStatus, 1, 0, 0, TRUE, back, "throws")
                      /\ submitClicks' = submitClicks + 1
                   \/ \* a submit button: close (dry run) or click it, the row, applied++
                      /\ \E back \in BackTo :
                           Outcome(j, SubmitStatus, 1, 0, 0, TRUE, back, "throws")
                      /\ submitClicks' = submitClicks + (IF dryRun THEN 0 ELSE 1)
     ELSE /\ pc' = "outer"
          /\ cardsToProcess' = <<>>
          /\ UNCHANGED <<applications, countVars, jobId, err, processedJobIds, cardsListed, histVars>>
  /\ UNCHANGED <<coordVars, retryAttempts, jobCards, cardIdx, pageHasMoreJobs,
                 noNewJobsCount>>

\* the catch block, first half: errors++ and the error row
JobrightCatch ==
  /\ Running("jobright") /\ pc = "catch"
  /\ errors' = errors + 1
  /\ recordApplication(Row("jobright", jobId, "error"))
  /\ handled' = handled \cup {jobId}
  /\ pc' = "afterError"
  /\ UNCHANGED <<coordVars, applied, skipped, loopVars, cardsListed, attempts, submitClicks>>

\* the catch block, second half: back to the feed, the challenge check
JobrightAfterError ==
  /\ Running("jobright") /\ pc = "afterError"
  /\ \/ BlockedReturn("jobright")
     \/ pc' = "card" /\ UNCHANGED applications
  /\ jobId' = NoId /\ err' = "none"
  /\ UNCHANGED <<coordVars, countVars, retryAttempts, jobCards, cardIdx, cardsToProcess,
                 pageHasMoreJobs, processedJobIds, noNewJobsCount, cardsListed, histVars>>

applyJobright ==
  \/ JobrightNavigate
  \/ JobrightFeed
  \/ JobrightOuter
  \/ JobrightCard
  \/ JobrightCatch
  \/ JobrightAfterError

Main ==
  \/ MainStart
  \/ MainNoPlatform
  \/ MainLaunch
  \/ MainCheckLogin
  \/ MainPlatformDone
  \/ MainFinish

Next == Main \/ applyLinkedIn \/ applyIndeed \/ applyDice \/ applyJobright

Spec == Init /\ [][Next]_vars

\* the program keeps running: the Node.js event loop resumes every awaited
\* call, so some step is taken whenever one is possible
SpecLive == Init /\ [][Next]_vars /\ WF_vars(Next)

(***************************************************************************)
(* The step loop on its own: one attempt whose form is open, on LinkedIn   *)
(* or Indeed, taken one loop iteration at a time.                          *)
(***************************************************************************)
StepPlatforms == {"linkedin", "indeed"}

\* the most buttons on one screen
MaxButtons == 3

\* the buttons a screen can show, each of them visible or hidden
Buttons(p) ==
  {SubmitButton(p, v) : v \in BOOLEAN} \cup {NextButton(p, v) : v \in BOOLEAN}
    \cup {DismissButton(p, v) : v \in BOOLEAN}

\* one-screen forms with every row of at most MaxButtons buttons
ButtonForms(p) ==
  {<<ScreenWith("A", b)>> : b \in UNION {[1..n -> Buttons(p)] : n \in 0..MaxButtons}}

InitModal ==
  /\ InitProgram
  /\ \E p \in StepPlatforms : \E d \in BOOLEAN : \E f \in Forms(p) \cup ButtonForms(p) :
     \E k \in 0..Len(f) :
       modal = [platform |-> p, dry |-> d, form |-> WithEssay(f, k), loop |-> NewLoop,
                pc |-> "loop"]
  /\ filler = NoFiller

\* the loop condition and, if it holds, the loop body, once
ModalStep ==
  /\ modal.pc = "loop"
  /\ modal.loop.outcome = "running"
  /\ modal' = [modal EXCEPT
                 !.loop = ModalIteration(modal.platform, modal.dry, modal.form, modal.loop)]
  /\ UNCHANGED <<applications, runs, mainPc, runId, dryRun, enabledPlatforms, platIdx, filler,
                 runStats, exitCode, openContexts, pc, countVars, loopVars, cardsListed, histVars>>

\* after the loop: the success record was written, or the throw reaches the catch block
ModalEnd ==
  /\ modal.pc = "loop"
  /\ modal.loop.outcome # "running"
  /\ modal' = [modal EXCEPT
                 !.pc = IF modal.loop.outcome = "submitted" THEN "recorded" ELSE "catch"]
  /\ UNCHANGED <<applications, runs, mainPc, runId, dryRun, enabledPlatforms, platIdx, filler,
                 runStats, exitCode, openContexts, pc, countVars, loopVars, cardsListed, histVars>>

NextModal == ModalStep \/ ModalEnd

SpecModal == InitModal /\ [][NextModal]_vars

(***************************************************************************)
(* lib/form-filler.js                                                      *)
(***************************************************************************)
\* replace(/\s+/g, ' '): a run of spaces becomes one space
RECURSIVE CollapseSpaces(_)
CollapseSpaces(s) ==
  IF Len(s) <= 1 THEN s
  ELSE IF s[1] = " " /\ s[2] = " " THEN CollapseSpaces(Tail(s))
  ELSE <<s[1]>> \o CollapseSpaces(Tail(s))

\* String.prototype.trim on a string whose runs of spaces are collapsed
Trim(s) ==
  LET a == IF s # <<>> /\ s[1] = " " THEN Tail(s) ELSE s
  IN  IF a # <<>> /\ a[Len(a)] = " " THEN SubSeq(a, 1, Len(a) - 1) ELSE a

\* normalizeLabel: lower case, every character outside [a-z0-9\s] becomes a
\* space, runs of spaces collapse, trim
normalizeLabel(label) ==
  LET lower == toLowerCase(label)
      plain == [i \in 1..Len(lower) |->
                  IF \/ \E k \in 1..Len(LowerChars) : LowerChars[k] = lower[i]
                     \/ lower[i] \in DigitChars
                     \/ lower[i] = " "
                  THEN lower[i] ELSE " "]
  IN  Trim(CollapseSpaces(plain))

\* string-similarity compareTwoStrings: the Dice coefficient of the bigrams of the
\* two strings without their spaces, as the fraction num / den
RemoveSpaces(s) == SelectSeq(s, LAMBDA c : c # " ")
Bigrams(s) == [i \in 1..(Len(s) - 1) |-> <<s[i], s[i + 1]>>]
compareTwoStrings(first, second) ==
  LET a == RemoveSpaces(first)
      b == RemoveSpaces(second)
      ba == Bigrams(a)
      bb == Bigrams(b)
      \* the k-th occurrence of a bigram of b counts while a has k occurrences of it
      hit(j) == Cardinality({k \in 1..j : bb[k] = bb[j]})
                  <= Cardinality({k \in 1..Len(ba) : ba[k] = bb[j]})
  IN  IF a = b THEN [num |-> 1, den |-> 1]
      ELSE IF Len(a) < 2 \/ Len(b) < 2 THEN [num |-> 0, den |-> 1]
      ELSE [num |-> 2 * Cardinality({j \in 1..Len(bb) : hit(j)}),
            den |-> Len(a) + Len(b) - 2]

\* r > q, r >= q on fractions
RatingAbove(r, q) == r.num * q.den > q.num * r.den
RatingAtLeast(r, q) == r.num * q.den >= q.num * r.den

\* findBestMatch(...).bestMatchIndex: the first target with the highest rating
bestMatchIndex(main, targets) ==
  CHOOSE i \in 1..Len(targets) :
    /\ \A k \in 1..Len(targets) :
         RatingAtLeast(compareTwoStrings(main, targets[i]), compareTwoStrings(main, targets[k]))
    /\ \A k \in 1..(i - 1) :
         RatingAbove(compareTwoStrings(main, targets[i]), compareTwoStrings(main, targets[k]))

\* const FUZZY_THRESHOLD = 0.6
FUZZY_THRESHOLD == [num |-> 6, den |-> 10]

\* bestMatch.rating > FUZZY_THRESHOLD: a rating equal to the threshold is rejected
MeetsThresholdStrict(r) == RatingAbove(r, FUZZY_THRESHOLD)

\* bestMatch.rating >= FUZZY_THRESHOLD
MeetsThreshold(r) == RatingAtLeast(r, FUZZY_THRESHOLD)

\* findAnswer returned null
NoAnswer == <<"null">>

\* findAnswer(label, defaultAnswers); kb is the sequence of the entries of
\* defaultAnswers in the order of Object.keys
findAnswer(label, kb) ==
  IF kb = <<>> THEN NoAnswer
  ELSE LET keys == [i \in 1..Len(kb) |-> kb[i].key]
           best == bestMatchIndex(label, keys)
           sub == {i \in 1..Len(kb) : Includes(label, keys[i]) \/ Includes(keys[i], label)}
       IN  IF MeetsThreshold(compareTwoStrings(label, keys[best]))
           THEN kb[best].answer
           ELSE IF sub # {}
           THEN kb[CHOOSE i \in sub : \A k \in sub : i <= k].answer
           ELSE NoAnswer


\* /^(|0|placeholder|select|select an option|choose|please select|-- select|--select--)$/i
PlaceholderTexts ==
  {<<>>,
   <<"0">>,
   <<"p", "l", "a", "c", "e", "h", "o", "l", "d", "e", "r">>,
   <<"s", "e", "l", "e", "c", "t">>,
   <<"s", "e", "l", "e", "c", "t", " ", "a", "n", " ", "o", "p", "t", "i", "o", "n">>,
   <<"c", "h", "o", "o", "s", "e">>,
   <<"p", "l", "e", "a", "s", "e", " ", "s", "e", "l", "e", "c", "t">>,
   <<"-", "-", " ", "s", "e", "l", "e", "c", "t">>,
   <<"-", "-", "s", "e", "l", "e", "c", "t", "-", "-">>}
placeholderPattern(s) == toLowerCase(s) \in PlaceholderTexts

\* bestOpt.rating >= 0.4, bestMatch.rating >= 0.4
OptionThreshold == [num |-> 4, den |-> 10]

\* which strategy of fillSelect succeeds: selectOption (1), evaluate (2),
\* the click on the option (3), or none
Mechanisms == {1, 2, 3, 0}

\* fillSelect(selectEl, matchedIndex, matchedText, page): the selectedIndex it
\* leaves (option indices count from 0)
fillSelect(sel, matchedIndex, matchedText) ==
  CASE sel.mechanism \in {1, 2} -> matchedIndex
    [] sel.mechanism = 3 ->
         LET k == FirstIndex([i \in 1..Len(sel.options) |->
                                toLowerCase(sel.options[i].text) = toLowerCase(matchedText)])
         IN  IF k > 0 THEN k - 1 ELSE sel.selectedIndex
    [] OTHER -> sel.selectedIndex

\* fillSelect's return value: true if one of the three strategies succeeded
fillSelectOk(sel, matchedText) ==
  \/ sel.mechanism \in {1, 2}
  \/ /\ sel.mechanism = 3
     /\ \E i \in 1..Len(sel.options) :
          toLowerCase(sel.options[i].text) = toLowerCase(matchedText)

\* select.$$eval('option', ...): text, value and index of every option
optionDetails(options) ==
  [i \in 1..Len(options) |-> [text |-> options[i].text, value |-> options[i].value, index |-> i - 1]]

\* the SELECT DROPDOWNS section of fillForm on one select; fault names the
\* driver operation that raises on this select: select.isVisible(),
\* extractLabel's element.getAttribute(), or opt.innerText()
FillSelectField(sel, kb) ==
  LET selected == sel.options[sel.selectedIndex + 1]
      answer == findAnswer(normalizeLabel(sel.label), kb)
      nonPlaceholderOpts ==
        SelectSeq(optionDetails(sel.options),
                  LAMBDA o : o.text # <<>> /\ ~placeholderPattern(o.text))
      targets == [i \in 1..Len(nonPlaceholderOpts) |-> toLowerCase(nonPlaceholderOpts[i].text)]
      bestOpt == bestMatchIndex(toLowerCase(answer), targets)
      matched == nonPlaceholderOpts[FirstIndex([i \in 1..Len(nonPlaceholderOpts) |->
                                      targets[i] = targets[bestOpt]])]
      firstRealIdx == FirstIndex([i \in 1..Len(sel.options) |->
                                   /\ sel.options[i].text # <<>>
                                   /\ ~placeholderPattern(sel.options[i].text)])
  IN  IF sel.fault = "isVisible" THEN [sel EXCEPT !.threw = TRUE]
      ELSE IF ~sel.visible THEN sel
      ELSE IF /\ selected.value # <<>>
              /\ ~placeholderPattern(selected.value)
              /\ ~placeholderPattern(selected.text)
      THEN sel
      ELSE IF sel.fault \in {"extractLabel", "innerText"} THEN [sel EXCEPT !.threw = TRUE]
      ELSE IF answer # NoAnswer
      THEN IF /\ nonPlaceholderOpts # <<>>
              /\ RatingAtLeast(compareTwoStrings(toLowerCase(answer), targets[bestOpt]),
                               OptionThreshold)
           THEN [sel EXCEPT !.selectedIndex = fillSelect(sel, matched.index, matched.text),
                            !.filled = IF fillSelectOk(sel, matched.text) THEN 1 ELSE 0]
           ELSE sel
      ELSE IF Len(sel.options) > 1 /\ firstRealIdx > 0
      THEN [sel EXCEPT !.selectedIndex =
              fillSelect(sel, firstRealIdx - 1, sel.options[firstRealIdx].text),
                       !.filled = IF fillSelectOk(sel, sel.options[firstRealIdx].text)
                                  THEN 1 ELSE 0,
                       !.unfilled =
                         IF fillSelectOk(sel, sel.options[firstRealIdx].text) /\ sel.label # <<>>
                         THEN <<[fieldLabel |-> sel.label, fieldType |-> "select"]>>
                         ELSE <<>>]
      ELSE sel

\* the texts of a trigger that shows no selection yet
DropdownPlaceholders ==
  {<<"s", "e", "l", "e", "c", "t", " ", "a", "n", " ", "o", "p", "t", "i", "o", "n">>,
   <<"s", "e", "l", "e", "c", "t">>,
   <<"c", "h", "o", "o", "s", "e">>,
   <<"p", "l", "e", "a", "s", "e", " ", "s", "e", "l", "e", "c", "t">>,
   <<>>}

\* the LINKEDIN CUSTOM DROPDOWNS section of fillForm on one trigger; options
\* are the option texts, of the native select near the trigger when
\* hiddenSelect, and of the listbox that opens on the click when opens;
\* trigger.isVisible() and extractLabel are outside the try block, the
\* selectOption and the clicks inside it
FillCustomDropdown(trigger, kb) ==
  LET normalLabel == normalizeLabel(trigger.label)
      answer == findAnswer(normalLabel, kb)
      lowerAnswer == toLowerCase(answer)
      targets == [i \in 1..Len(trigger.options) |-> toLowerCase(trigger.options[i])]
      best == bestMatchIndex(lowerAnswer, targets)
      fuzzyOk == /\ trigger.options # <<>>
                 /\ RatingAtLeast(compareTwoStrings(lowerAnswer, targets[best]), OptionThreshold)
      fuzzyIdx == FirstIndex([i \in 1..Len(targets) |-> targets[i] = targets[best]])
      subIdx == FirstIndex([i \in 1..Len(targets) |->
                              Includes(targets[i], lowerAnswer) \/ Includes(lowerAnswer, targets[i])])
  IN  IF trigger.fault = "isVisible" THEN [trigger EXCEPT !.threw = TRUE]
      ELSE IF ~trigger.visible THEN trigger
      ELSE IF /\ trigger.currentText # <<>>
              /\ toLowerCase(trigger.currentText) \notin DropdownPlaceholders
      THEN trigger
      ELSE IF trigger.fault = "extractLabel" THEN [trigger EXCEPT !.threw = TRUE]
      ELSE IF answer = NoAnswer \/ answer = <<>>
      THEN IF normalLabel # <<>>
           THEN [trigger EXCEPT !.unfilled =
                   <<[fieldLabel |-> trigger.label, fieldType |-> "custom-dropdown"]>>]
           ELSE trigger
      ELSE IF trigger.hiddenSelect /\ trigger.options = <<>> THEN trigger
      ELSE IF trigger.hiddenSelect /\ fuzzyOk
      THEN IF trigger.fault = "selectOption" THEN trigger
           ELSE [trigger EXCEPT !.selected = fuzzyIdx, !.filled = 1]
      ELSE IF trigger.fault = "click" THEN trigger
      ELSE IF ~trigger.opens THEN [trigger EXCEPT !.clicks = 1]
      ELSE IF subIdx > 0
      THEN [trigger EXCEPT !.clicks = 2, !.selected = subIdx, !.filled = 1]
      ELSE IF fuzzyOk
      THEN [trigger EXCEPT !.clicks = 2, !.selected = fuzzyIdx, !.filled = 1]
      ELSE [trigger EXCEPT !.clicks = 1]

\* the FILE UPLOADS section of fillForm on one file input; exists: the resume
\* file is on disk
FillFileInput(file) ==
  IF file.fault = "isVisible" THEN [file EXCEPT !.threw = TRUE]
  ELSE IF ~file.visible THEN file
  ELSE IF file.exists
  THEN IF file.fault = "setInputFiles" THEN [file EXCEPT !.threw = TRUE]
       ELSE [file EXCEPT !.uploaded = TRUE, !.filled = 1]
  ELSE file

\* the first radio option only
FirstRadioOption(options) == 1

\* radioOptions.find(label includes 'yes') || radioOptions[0]
SafeRadioDefault(options) ==
  LET yes == FirstIndex([i \in 1..Len(options) |->
                           Includes(toLowerCase(options[i]), <<"y", "e", "s">>)])
  IN  IF yes > 0 THEN yes ELSE 1

\* questionLabel || groupName
RadioQuestion(group) == IF group.label # <<>> THEN group.label ELSE group.name

\* the RADIO BUTTONS section of fillForm on one group; checked is the
\* position of the checked radio, 0 when none is checked; label is the
\* question label of extractRadioGroupLabel, which returns '' when its
\* evaluate raises (fault "groupLabel"); the other faults are not caught:
\* radio.isVisible(), r.isChecked(), extractLabel(page, r), clickRadio
FillRadioGroup(group, kb) ==
  LET questionLabel == IF group.fault = "groupLabel" THEN <<>> ELSE group.label
      answer == findAnswer(normalizeLabel(RadioQuestion([group EXCEPT !.label = questionLabel])),
                           kb)
      targets == [i \in 1..Len(group.options) |-> toLowerCase(group.options[i])]
      best == bestMatchIndex(toLowerCase(answer), targets)
      matched == FirstIndex([i \in 1..Len(group.options) |-> targets[i] = targets[best]])
  IN  IF group.fault = "isVisible" THEN [group EXCEPT !.threw = TRUE]
      ELSE IF ~group.visible THEN group
      ELSE IF group.fault = "isChecked" THEN [group EXCEPT !.threw = TRUE]
      ELSE IF group.checked # 0 THEN group
      ELSE IF group.fault = "extractLabel" THEN [group EXCEPT !.threw = TRUE]
      ELSE IF answer # NoAnswer
      THEN IF RatingAtLeast(compareTwoStrings(toLowerCase(answer), targets[best]),
                            OptionThreshold)
           THEN IF group.fault = "click" THEN [group EXCEPT !.threw = TRUE]
                ELSE [group EXCEPT !.checked = matched, !.filled = 1]
           ELSE group
      ELSE IF group.fault = "click" THEN [group EXCEPT !.threw = TRUE]
      ELSE [group EXCEPT !.checked = SafeRadioDefault(group.options),
                         !.filled = 1,
                         !.unfilled = IF questionLabel # <<>>
                                      THEN <<[fieldLabel |-> questionLabel, fieldType |-> "radio"]>>
                                      ELSE <<>>]

CONSENT_WORDS ==
  {<<"a", "g", "r", "e", "e">>,
   <<"c", "e", "r", "t", "i", "f", "y">>,
   <<"c", "o", "n", "f", "i", "r", "m">>,
   <<"a", "c", "k", "n", "o", "w", "l", "e", "d", "g", "e">>,
   <<"a", "c", "c", "e", "p", "t">>,
   <<"c", "o", "n", "s", "e", "n", "t">>}

\* every unchecked checkbox is a consent checkbox
IsConsentAlways(normalLabel) == TRUE

\* CONSENT_WORDS.some((word) => normalLabel.includes(word))
IsConsent(normalLabel) == \E word \in CONSENT_WORDS : Includes(normalLabel, word)

\* the CHECKBOXES section of fillForm on one checkbox; none of
\* checkbox.isVisible(), checkbox.isChecked(), extractLabel and
\* checkbox.click() is caught
FillCheckbox(box) ==
  IF box.fault = "isVisible" THEN [box EXCEPT !.threw = TRUE]
  ELSE IF ~box.visible THEN box
  ELSE IF box.fault = "isChecked" THEN [box EXCEPT !.threw = TRUE]
  ELSE IF box.checked THEN box
  ELSE IF box.fault = "extractLabel" THEN [box EXCEPT !.threw = TRUE]
  ELSE IF IsConsent(normalizeLabel(box.label))
  THEN IF box.fault = "click" THEN [box EXCEPT !.threw = TRUE]
       ELSE [box EXCEPT !.checked = TRUE, !.clicks = @ + 1, !.filled = 1]
  ELSE box

\* one write to an input: a keystroke of page.type or a whole-value fill
Typed(char) == [by |-> "type", text |-> <<char>>]
Filled(value) == [by |-> "fill", text |-> value]

\* typeWithDelay(page, selector, text, options): the writes it makes and
\* whether it returned; page.click(null) raises for a field without id and
\* name, and the failAt-th page.type raises when failAt is in 1..Len(text)
typeWithDelay(input, text) ==
  IF input.selector = "none"
  THEN [writes |-> <<>>, ok |-> FALSE]
  ELSE IF input.failAt \in 1..Len(text)
  THEN [writes |-> [i \in 1..(input.failAt - 1) |-> Typed(text[i])], ok |-> FALSE]
  ELSE [writes |-> [i \in 1..Len(text) |-> Typed(text[i])], ok |-> TRUE]

\* the writes that apply fillValue to a text input: input.fill('') for the
\* empty answer, else typeWithDelay(...).catch(() => input.fill(fillValue))
ApplyText(input, fillValue) ==
  IF fillValue = <<>>
  THEN <<Filled(<<>>)>>
  ELSE LET t == typeWithDelay(input, fillValue)
       IN  IF t.ok THEN t.writes ELSE Append(t.writes, Filled(fillValue))

\* the TEXT INPUTS section of fillForm on one text input; input.isVisible()
\* and extractLabel are not caught
FillTextInput(input, kb) ==
  LET normalLabel == normalizeLabel(input.label)
      answer == findAnswer(normalLabel, kb)
  IN  IF input.fault = "isVisible" THEN [input EXCEPT !.threw = TRUE]
      ELSE IF ~input.visible \/ input.disabled THEN input
      ELSE IF Trim(CollapseSpaces(input.value)) # <<>> THEN input
      ELSE IF input.fault = "extractLabel" THEN [input EXCEPT !.threw = TRUE]
      ELSE IF input.label = <<>> THEN input
      ELSE IF answer # NoAnswer
      THEN [input EXCEPT !.value = answer, !.answer = answer,
                         !.writes = ApplyText(input, answer), !.filled = 1]
      ELSE IF normalLabel # <<>>
      THEN [input EXCEPT !.answer = NoAnswer,
                         !.unfilled = <<[fieldLabel |-> input.label, fieldType |-> "text"]>>]
      ELSE [input EXCEPT !.answer = NoAnswer]


(***************************************************************************)
(* One call of fillForm on a page with one text input, one select, one     *)
(* custom dropdown, one radio group, one checkbox and one file input.  The *)
(* pages differ from a reference page in one field.                        *)
(***************************************************************************)
\* defaultAnswers.json: no entry, or these entries
KnowledgeBases ==
  {<<>>,
   <<[key |-> <<"n", "o", "t", "i", "c", "e">>, answer |-> <<"2", " ", "w", "e", "e", "k", "s">>],
     [key |-> <<"c", "i", "t", "y">>, answer |-> <<"S", "a", "l", "t", " ", "L", "a", "k", "e", " ", "C", "i", "t", "y">>],
     [key |-> <<"a", "u", "t", "h", "o", "r", "i", "z", "e", "d", " ", "t", "o", " ", "w", "o", "r", "k">>, answer |-> <<"Y", "e", "s">>],
     [key |-> <<"s", "p", "o", "n", "s", "o", "r", "s", "h", "i", "p">>, answer |-> <<"N", "o">>]>>}

TextLabels ==
  {<<"N", "o", "t", "i", "f", "y">>,
   <<"N", "a", "t", "i", "o", "n">>,
   <<"Y", "o", "u", "r", " ", "c", "i", "t", "y", " ", "n", "a", "m", "e">>,
   <<"C", "i", "t", "y", ":">>,
   <<"T", "e", "l", "l", " ", "u", "s", " ", "w", "h", "y", " ", "y", "o", "u", " ", "w", "a", "n", "t", " ", "t", "h", "i", "s", " ", "r", "o", "l", "e">>}

\* how the text input can be addressed and typed into: by id, by name, by
\* neither; failAt = 0: no keystroke fails
TextApplyCases ==
  {[selector |-> "id", failAt |-> 0],
   [selector |-> "name", failAt |-> 0],
   [selector |-> "name", failAt |-> 2],
   [selector |-> "none", failAt |-> 0]}

\* labels of the select: one with an answer among the options, none, one
\* whose answer is no option, one without an answer
SelectLabels ==
  {<<"A", "u", "t", "h", "o", "r", "i", "z", "e", "d", " ", "t", "o", " ", "w", "o", "r", "k", "?">>,
   <<>>,
   <<"C", "i", "t", "y">>,
   <<"N", "a", "t", "i", "o", "n">>}

SelectOptionLists ==
  {<<[text |-> <<"-", "-", " ", "S", "e", "l", "e", "c", "t", " ", "-", "-">>, value |-> <<>>], [text |-> <<"Y", "e", "s">>, value |-> <<"Y", "e", "s">>], [text |-> <<"N", "o">>, value |-> <<"N", "o">>]>>,
   <<[text |-> <<"-", "-", " ", "S", "e", "l", "e", "c", "t", " ", "-", "-">>, value |-> <<"-", "-", " ", "S", "e", "l", "e", "c", "t", " ", "-", "-">>], [text |-> <<"Y", "e", "s">>, value |-> <<"Y", "e", "s">>], [text |-> <<"N", "o">>, value |-> <<"N", "o">>]>>,
   <<[text |-> <<"S", "e", "l", "e", "c", "t">>, value |-> <<"-", "1">>], [text |-> <<"N", "o">>, value |-> <<"0">>], [text |-> <<"Y", "e", "s">>, value |-> <<"1">>]>>,
   <<[text |-> <<"P", "l", "e", "a", "s", "e", " ", "s", "e", "l", "e", "c", "t">>, value |-> <<"0">>], [text |-> <<"N", "o">>, value |-> <<"n">>], [text |-> <<"Y", "e", "s">>, value |-> <<"y">>]>>}

RadioLabels ==
  {<<"N", "a", "t", "i", "o", "n">>,
   <<"S", "p", "o", "n", "s", "o", "r", "s", "h", "i", "p", "?">>}

RadioOptionLists ==
  {<<<<"Y", "e", "s">>, <<"N", "o">>>>,
   <<<<"N", "o">>, <<"Y", "e", "s">>>>,
   <<<<"M", "a", "l", "e">>, <<"F", "e", "m", "a", "l", "e">>>>,
   <<<<"N", "o">>, <<"Y", "e", "s", ",", " ", "I", " ", "d", "o">>>>}

CheckboxLabels ==
  {<<"I", " ", "c", "e", "r", "t", "i", "f", "y", " ", "t", "h", "a", "t", " ", "t", "h", "e", " ", "a", "b", "o", "v", "e", " ", "i", "s", " ", "t", "r", "u", "e">>,
   <<"S", "u", "b", "s", "c", "r", "i", "b", "e", " ", "t", "o", " ", "n", "e", "w", "s", "l", "e", "t", "t", "e", "r">>,
   <<"I", " ", "A", "G", "R", "E", "E", " ", "t", "o", " ", "t", "h", "e", " ", "T", "e", "r", "m", "s">>,
   <<>>}

\* the driver operations of each section that can raise on the field
Faults ==
  [text |-> {"isVisible", "extractLabel"},
   select |-> {"isVisible", "extractLabel", "innerText"},
   dropdown |-> {"isVisible", "extractLabel", "selectOption", "click"},
   radio |-> {"isVisible", "isChecked", "groupLabel", "extractLabel", "click"},
   checkbox |-> {"isVisible", "isChecked", "extractLabel", "click"},
   file |-> {"isVisible", "setInputFiles"}]

DropdownLabels ==
  {<<"S", "p", "o", "n", "s", "o", "r", "s", "h", "i", "p", "?">>,
   <<"N", "a", "t", "i", "o", "n">>,
   <<"?">>,
   <<>>}

DropdownTexts ==
  {<<>>,
   <<"S", "e", "l", "e", "c", "t", " ", "a", "n", " ", "o", "p", "t", "i", "o", "n">>,
   <<"U", "t", "a", "h">>}

DropdownOptionLists ==
  {<<<<"Y", "e", "s">>, <<"N", "o">>>>,
   <<<<"N", "o", "t", " ", "n", "e", "e", "d", "e", "d">>, <<"R", "e", "q", "u", "i", "r", "e", "d">>>>,
   <<>>}

\* the reference page
ReferencePage ==
  [text |-> [label |-> <<"C", "i", "t", "y", ":">>, value |-> <<>>, answer |-> NoAnswer,
             selector |-> "id", failAt |-> 0, writes |-> <<>>, filled |-> 0,
             unfilled |-> <<>>, visible |-> TRUE, disabled |-> FALSE, fault |-> "none",
             threw |-> FALSE],
   select |-> [label |-> <<"N", "a", "t", "i", "o", "n">>,
               options |-> <<[text |-> <<"S", "e", "l", "e", "c", "t">>, value |-> <<"-", "1">>], [text |-> <<"N", "o">>, value |-> <<"0">>], [text |-> <<"Y", "e", "s">>, value |-> <<"1">>]>>,
               selectedIndex |-> 0, mechanism |-> 1, filled |-> 0, unfilled |-> <<>>,
               visible |-> TRUE, fault |-> "none", threw |-> FALSE],
   dropdown |-> [label |-> <<"S", "p", "o", "n", "s", "o", "r", "s", "h", "i", "p", "?">>, currentText |-> <<>>, hiddenSelect |-> FALSE,
                 opens |-> TRUE, options |-> <<<<"Y", "e", "s">>, <<"N", "o">>>>, selected |-> 0,
                 clicks |-> 0, filled |-> 0, unfilled |-> <<>>, visible |-> TRUE,
                 fault |-> "none", threw |-> FALSE],
   radio |-> [label |-> <<"N", "a", "t", "i", "o", "n">>, name |-> <<"q", "1">>,
              options |-> <<<<"N", "o">>, <<"Y", "e", "s">>>>, checked |-> 0, filled |-> 0,
              unfilled |-> <<>>, visible |-> TRUE, fault |-> "none", threw |-> FALSE],
   checkbox |-> [label |-> <<>>, checked |-> FALSE, clicks |-> 0, filled |-> 0,
                 visible |-> TRUE, fault |-> "none", threw |-> FALSE],
   file |-> [exists |-> TRUE, uploaded |-> FALSE, filled |-> 0, visible |-> TRUE,
             fault |-> "none", threw |-> FALSE]]

TextInputs ==
  {[ReferencePage.text EXCEPT !.label = tl, !.selector = ta.selector, !.failAt = ta.failAt] :
     tl \in TextLabels, ta \in TextApplyCases}
    \cup {[ReferencePage.text EXCEPT !.value = v, !.visible = vis, !.disabled = dis] :
            v \in {<<>>, <<"P", "r", "o", "v", "o">>}, vis \in BOOLEAN, dis \in BOOLEAN}
    \cup {[ReferencePage.text EXCEPT !.fault = f] : f \in Faults.text}

Selects ==
  {[ReferencePage.select EXCEPT !.label = sl, !.options = so, !.mechanism = m] :
     sl \in SelectLabels, so \in SelectOptionLists, m \in Mechanisms}
    \cup {[ReferencePage.select EXCEPT !.label = sl, !.options = so, !.selectedIndex = si,
                                       !.visible = vis] :
            sl \in {<<"A", "u", "t", "h", "o", "r", "i", "z", "e", "d", " ", "t", "o", " ", "w", "o", "r", "k", "?">>, <<"N", "a", "t", "i", "o", "n">>},
            so \in SelectOptionLists, si \in 0..2, vis \in BOOLEAN}
    \cup {[ReferencePage.select EXCEPT !.fault = f] : f \in Faults.select}

Dropdowns ==
  {[ReferencePage.dropdown EXCEPT !.label = dl, !.currentText = ct, !.hiddenSelect = hs,
                                  !.opens = op, !.options = o, !.visible = vis] :
     dl \in DropdownLabels, ct \in DropdownTexts, hs \in BOOLEAN, op \in BOOLEAN,
     o \in DropdownOptionLists, vis \in BOOLEAN}
    \cup {[ReferencePage.dropdown EXCEPT !.fault = f, !.hiddenSelect = hs] :
            f \in Faults.dropdown, hs \in BOOLEAN}

RadioGroups ==
  {[ReferencePage.radio EXCEPT !.label = rl, !.options = ro, !.checked = rc, !.visible = vis] :
     rl \in RadioLabels, ro \in RadioOptionLists, rc \in {0, 1}, vis \in BOOLEAN}
    \cup {[ReferencePage.radio EXCEPT !.label = rl, !.name = n] :
            rl \in {<<>>, <<"?">>}, n \in {<<"q", "1">>, <<"_">>}}
    \cup {[ReferencePage.radio EXCEPT !.fault = f, !.label = rl] :
            f \in Faults.radio, rl \in RadioLabels}

Checkboxes ==
  {[ReferencePage.checkbox EXCEPT !.label = cl, !.checked = cc, !.visible = vis] :
     cl \in CheckboxLabels, cc \in BOOLEAN, vis \in BOOLEAN}
    \cup {[ReferencePage.checkbox EXCEPT !.fault = f,
                                          !.label = <<"I", " ", "A", "G", "R", "E", "E", " ", "t", "o", " ", "t", "h", "e", " ", "T", "e", "r", "m", "s">>] :
            f \in Faults.checkbox}

FileInputs ==
  {[ReferencePage.file EXCEPT !.exists = e, !.visible = vis] : e \in BOOLEAN, vis \in BOOLEAN}
    \cup {[ReferencePage.file EXCEPT !.fault = f] : f \in Faults.file}

Pages ==
  {[ReferencePage EXCEPT !.text = t] : t \in TextInputs}
    \cup {[ReferencePage EXCEPT !.select = x] : x \in Selects}
    \cup {[ReferencePage EXCEPT !.dropdown = d] : d \in Dropdowns}
    \cup {[ReferencePage EXCEPT !.radio = g] : g \in RadioGroups}
    \cup {[ReferencePage EXCEPT !.checkbox = b] : b \in Checkboxes}
    \cup {[ReferencePage EXCEPT !.file = u] : u \in FileInputs}

InitFill ==
  /\ InitProgram
  /\ modal = NoModal
  /\ \E kb \in KnowledgeBases, page \in Pages :
       filler = [pc |-> "start", kb |-> kb, filledCount |-> 0, unfilledFields |-> <<>>,
                 text |-> page.text, select |-> page.select, dropdown |-> page.dropdown,
                 radio |-> page.radio, checkbox |-> page.checkbox, file |-> page.file]

\* fillForm: the text inputs, the selects, the custom dropdowns, the radio
\* groups, the checkboxes, the file inputs, in this order; an operation that
\* raises outside a try block ends fillForm at once, without a return value
FillForm ==
  /\ filler.pc = "start"
  /\ LET FormResult(text, select, dropdown, radio, checkbox, file) ==
           LET raised == text.threw \/ select.threw \/ dropdown.threw \/ radio.threw
                           \/ checkbox.threw \/ file.threw
           IN  [filler EXCEPT
                  !.pc = IF raised THEN "threw" ELSE "done",
                  !.text = text,
                  !.select = select,
                  !.dropdown = dropdown,
                  !.radio = radio,
                  !.checkbox = checkbox,
                  !.file = file,
                  !.filledCount =
                    IF raised THEN 0
                    ELSE text.filled + select.filled + dropdown.filled + radio.filled
                           + checkbox.filled + file.filled,
                  !.unfilledFields =
                    IF raised THEN <<>>
                    ELSE text.unfilled \o select.unfilled \o dropdown.unfilled
                           \o radio.unfilled]
         FileSection(text, select, dropdown, radio, checkbox) ==
           FormResult(text, select, dropdown, radio, checkbox,
                  IF text.threw \/ select.threw \/ dropdown.threw \/ radio.threw
                       \/ checkbox.threw
                  THEN filler.file
                  ELSE FillFileInput(filler.file))
         CheckboxSection(text, select, dropdown, radio) ==
           FileSection(text, select, dropdown, radio,
                 IF text.threw \/ select.threw \/ dropdown.threw \/ radio.threw
                 THEN filler.checkbox
                 ELSE FillCheckbox(filler.checkbox))
         RadioSection(text, select, dropdown) ==
           CheckboxSection(text, select, dropdown,
                           IF text.threw \/ select.threw \/ dropdown.threw THEN filler.radio
                           ELSE FillRadioGroup(filler.radio, filler.kb))
         DropdownSection(text, select) ==
           RadioSection(text, select,
                        IF text.threw \/ select.threw THEN filler.dropdown
                        ELSE FillCustomDropdown(filler.dropdown, filler.kb))
         SelectSection(text) ==
           DropdownSection(text,
                           IF text.threw THEN filler.select
                           ELSE FillSelectField(filler.select, filler.kb))
     IN  filler' = SelectSection(FillTextInput(filler.text, filler.kb))
  /\ UNCHANGED <<applications, runs, mainPc, runId, dryRun, enabledPlatforms, platIdx, modal,
                 runStats, exitCode, openContexts, pc, countVars, loopVars, cardsListed, histVars>>

NextFill == FillForm

SpecFill == InitFill /\ [][NextFill]_vars

(***************************************************************************)
(* Properties.                                                             *)
(***************************************************************************)
Rows == DOMAIN applications

RowsOf(p, j) == {i \in Rows : applications[i].platform = p /\ applications[i].jobId = j}

SuccessRowExists(p, j) == \E i \in RowsOf(p, j) : applications[i].status \in SuccessStatuses

\* the rows of the current run for a job of the platform being processed
RunRows(j) == {i \in RowsOf(Platform, j) : applications[i].runId = runId}

\* the card the next loop iteration of the running platform function takes
CurrentCard ==
  IF mainPc = "apply" /\ pc = "card" /\ applied < maxApplications
  THEN IF Platform = "linkedin"
       THEN IF cardIdx <= Len(jobCards) THEN jobCards[cardIdx] ELSE NoId
       ELSE IF cardsToProcess # <<>> THEN Head(cardsToProcess) ELSE NoId
  ELSE NoId

\* the step appends exactly one row, with this status
Appends(status) ==
  /\ Len(applications') = Len(applications) + 1
  /\ applications'[Len(applications')].status = status

\* C1: for every (platform, jobId) at most one row with status submitted or
\* dry_run is ever written, over all runs and listings; and when a success
\* row exists for the card a platform function takes next, the iteration
\* takes the skip path: no attempt is started, no submission is made, the
\* applied counter stays, and the only row it may write is already_applied.
C1_AtMostOneSubmission ==
  /\ [](\A p \in Platforms : \A j \in Jobs :
          Cardinality({i \in RowsOf(p, j) :
                         applications[i].status \in {"submitted", "dry_run"}}) <= 1)
  /\ [][(CurrentCard \in Jobs /\ SuccessRowExists(Platform, CurrentCard))
          => /\ applied' = applied
             /\ submitClicks' = submitClicks
             /\ attempts' = attempts
             /\ \/ applications' = applications
                \/ applications' =
                     Append(applications, Row(Platform, CurrentCard, "already_applied"))]_vars

\* C1 witness: a job submitted (or dry-run) in one run was met again in a
\* later run and got an already_applied row there
C1_SkippedInLaterRun ==
  \E i \in Rows : \E k \in Rows :
    /\ i < k
    /\ applications[i].platform = applications[k].platform
    /\ applications[i].jobId = applications[k].jobId
    /\ applications[i].status \in {"submitted", "dry_run"}
    /\ applications[k].status = "already_applied"
    /\ applications[i].runId < applications[k].runId

\* C2: in every ledger state hasApplied(platform, jobId) holds exactly when
\* some row of the pair has status submitted, already_applied or dry_run,
\* and once it holds it holds after every further step, whatever the latest
\* row of the pair is.
C2_HasAppliedIffSuccessRow ==
  /\ [](\A p \in Platforms : \A j \in Jobs : hasApplied(p, j) <=> SuccessRowExists(p, j))
  /\ [][\A p \in Platforms : \A j \in Jobs : hasApplied(p, j) => hasApplied(p, j)']_vars

\* C2 witness: hasApplied holds for a pair whose latest row is an error row
C2_TrueWithLatestError ==
  \E p \in Platforms : \E j \in Jobs :
    /\ hasApplied(p, j)
    /\ \E k \in RowsOf(p, j) :
         /\ \A i \in RowsOf(p, j) : i <= k
         /\ applications[k].status = "error"

\* C3: the applications table is append-only: a step either leaves it as it
\* is or adds exactly one row after the rows there, which stay as they are;
\* the steps of main (createRun, completeRun) leave it as it is.
C3_AppendOnly ==
  [][/\ \/ applications' = applications
        \/ /\ Len(applications') = Len(applications) + 1
           /\ SubSeq(applications', 1, Len(applications)) = applications
     /\ mainPc # "apply" => applications' = applications]_vars

\* C3 witness: two rows of one (platform, jobId) are in the table
C3_TwoRowsOfOnePair ==
  \E p \in Platforms : \E j \in Jobs : Cardinality(RowsOf(p, j)) >= 2

\* C4: when a block is detected one captcha_blocked row is written and the
\* platform function returns at once, without counting a retry or putting
\* the job back in the queue; in that run no row of that platform follows
\* the captcha_blocked row.
C4_BlockLatch ==
  /\ [](\A i \in Rows : \A k \in Rows :
          (/\ i < k
           /\ applications[i].status = "captcha_blocked"
           /\ applications[i].platform = applications[k].platform)
          => applications[i].runId # applications[k].runId)
  /\ [][Appends("captcha_blocked")
          => /\ pc' = "returned"
             /\ retryAttempts' = retryAttempts
             /\ cardsToProcess' = cardsToProcess \/ cardsToProcess' = Tail(cardsToProcess)]_vars

\* C4 witness: a platform function returned on a block detected while a job
\* was in flight, after it had written a row for another job
C4_BlockedMidRun ==
  /\ mainPc = "apply" /\ pc = "returned"
  /\ applications # <<>>
  /\ applications[Len(applications)].status = "captcha_blocked"
  /\ \E j \in Jobs : RunRows(j) # {}
  /\ \E j \in Jobs : attempts[j] > 0 /\ RunRows(j) = {}

\* the error rows of the current run for a job of the platform being processed
ErrorRows(j) == {i \in RunRows(j) : applications[i].status = "error"}

\* C5: on every adapter a job whose attempt fails at most maxRetries times
\* is attempted again, so that a job which fails maxRetries times and then
\* succeeds ends with its success record: a job is given up with an error
\* row only after more than maxRetries attempts.
C5_RetryBeforeGivingUp ==
  mainPc = "apply" =>
    \A j \in Jobs : ErrorRows(j) # {} => attempts[j] > maxRetries

\* C6: within one platform run a job that keeps failing is attempted at most
\* maxRetries + 1 times and then gets one error row, after which it is not
\* attempted again, also when a later page or a duplicate card lists it again.
C6_BoundedAttempts ==
  mainPc = "apply" =>
    \A j \in Jobs :
      ErrorRows(j) # {} =>
        /\ attempts[j] <= maxRetries + 1
        /\ Cardinality(ErrorRows(j)) = 1

\* C7: within one run every job that reached a terminal outcome in a
\* platform function (submitted, dry_run, already_applied, skipped, error)
\* has exactly one row of that run.
C7_OneRowPerHandledJob ==
  mainPc = "apply" => \A j \in handled : Cardinality(RunRows(j)) = 1

\* C8: once the listing navigation has succeeded a platform function does
\* not throw: it ends by returning its summary.
C8_NeverThrowsAfterNavigation == pc # "threw"

NoSubmitWithin(p, form, n) == \A i \in 1..n : handleStep(p, FormStep(form, i)) # "submitted"

\* C10: the step loop of one attempt processes at most MAX_STEPS screens (12
\* on LinkedIn, 8 on Indeed); a form without a submit control on its first
\* MAX_STEPS screens is never submitted, and its attempt ends in the catch
\* block.
C10_StepCeiling ==
  modal.pc # "none" =>
    /\ modal.loop.stepCount <= MaxSteps(modal.platform)
    /\ NoSubmitWithin(modal.platform, modal.form, MaxSteps(modal.platform)) =>
         /\ modal.loop.outcome # "submitted"
         /\ modal.loop.clicks = 0
         /\ modal.pc \in {"loop", "catch"}

\* C10 witness: a form whose submit control is on screen MAX_STEPS + 1 ended
\* in the catch block after MAX_STEPS steps
C10_CeilingReached ==
  /\ modal.pc = "catch"
  /\ modal.form = LongForm(MaxSteps(modal.platform) + 1)
  /\ modal.loop.outcome = "exceeded"
  /\ modal.loop.stepCount = MaxSteps(modal.platform)

\* C11: on LinkedIn and on Indeed a screen whose fingerprint (the empty one
\* included) equals that of a screen already seen in the same attempt is not
\* handed to the step handler: no fingerprint is processed twice in one
\* attempt.
C11_NoRepeatedStepProcessed ==
  modal.pc # "none" =>
    \A i, k \in 1..Len(modal.loop.processed) :
      i # k => modal.loop.processed[i] # modal.loop.processed[k]

\* C12: in a dry run no adapter makes a real submission (no click that
\* creates an application), and no row of the run has status submitted.
C12_DryRunSubmitsNothing ==
  (mainPc = "apply" /\ dryRun) =>
    /\ submitClicks = 0
    /\ \A i \in Rows : applications[i].runId = runId => applications[i].status # "submitted"

\* C13: when the process has exited, every run created by createRun has had
\* completeRun called on it exactly once, on every exit path of main.
C13_CompletedExactlyOnce ==
  mainPc = "exited" => \A r \in 1..Len(runs) : runs[r] = 1

\* C14: a run that got past platform selection ends with the summary
\* printed and exit code 0, whatever its platforms did.
C14_SummaryAndExitZero ==
  (mainPc = "exited" /\ exitCode # NotExited /\ enabledPlatforms # <<>>) =>
    exitCode = [code |-> 0]

\* C15: a platform whose login check fails gets the null marker, and a
\* platform function does not return its zero-count summary from its
\* navigation step, before its loop is entered (a login wall is not
\* reported as "attempted, found nothing"); the one return from there is the
\* block, which leaves its captcha_blocked row.
C15_NullMarkerNotZeroSummary ==
  [][/\ (mainPc = "login" /\ mainPc' = "platforms") => runStats'[Platform] = NullStats
     /\ (mainPc = "apply" /\ pc = "nav" /\ pc' = "returned") => Appends("captcha_blocked")]_vars

\* C16: at most one browser context is open at any time, and none is open
\* when main is between two platforms or the process has exited: every
\* context is closed before the next launch and before the run completes.
C16_ContextsClosed ==
  /\ openContexts <= 1
  /\ mainPc \in {"platforms", "exited"} => openContexts = 0

\* C17: findAnswer returns the answer of a best-rated key when that rating
\* is at least 0.6 (0.6 itself included); when every rating is below 0.6 the
\* result is the answer of a key that contains the label or is contained in
\* it, and null when there is no such key.
C17_FuzzyThresholdBoundary ==
  (/\ filler.pc = "done"
   /\ filler.text.visible /\ ~filler.text.disabled
   /\ filler.text.value = <<>> \/ filler.text.filled = 1) =>
    LET lab == normalizeLabel(filler.text.label)
        kb == filler.kb
        r(k) == compareTwoStrings(lab, kb[k].key)
        fuzzy == {k \in 1..Len(kb) : 10 * r(k).num >= 6 * r(k).den}
        contained == {k \in 1..Len(kb) : Includes(lab, kb[k].key) \/ Includes(kb[k].key, lab)}
    IN  /\ fuzzy # {} =>
             \E k \in fuzzy :
               /\ \A m \in 1..Len(kb) : r(k).num * r(m).den >= r(m).num * r(k).den
               /\ filler.text.answer = kb[k].answer
        /\ (fuzzy = {} /\ contained # {}) =>
             \E k \in contained : filler.text.answer = kb[k].answer
        /\ (fuzzy = {} /\ contained = {}) => filler.text.answer = NoAnswer

\* C17 witness: a label whose best rating is exactly 6/10 got that key's answer
C17_ExactlySixTenths ==
  /\ filler.pc = "done" /\ filler.kb # <<>>
  /\ LET r == compareTwoStrings(normalizeLabel(filler.text.label), filler.kb[1].key)
     IN  r.num * 10 = 6 * r.den
  /\ ~Includes(normalizeLabel(filler.text.label), filler.kb[1].key)
  /\ filler.text.answer = filler.kb[1].answer
  /\ filler.text.value = filler.kb[1].answer

\* C18: after fillForm a visible select that showed its placeholder and whose
\* label has a matched answer has, whichever mechanism of fillSelect
\* succeeded and however the placeholder option's value is encoded, the
\* option selected whose text is the answer.
C18_SelectIndexOfAnswer ==
  [][(/\ filler.pc = "start" /\ filler'.pc = "done"
      /\ filler.select.visible
      /\ filler.select.selectedIndex = 0
      /\ filler.select.mechanism # 0
      /\ findAnswer(normalizeLabel(filler.select.label), filler.kb) # NoAnswer) =>
       \E i \in 1..Len(filler.select.options) :
         /\ toLowerCase(filler.select.options[i].text)
              = toLowerCase(findAnswer(normalizeLabel(filler.select.label), filler.kb))
         /\ filler'.select.selectedIndex = i - 1]_vars

C20_SafeRadioDefault ==
  [][(/\ filler.pc = "start" /\ filler'.pc = "done"
      /\ filler.radio.visible
      /\ filler.radio.checked = 0
      /\ findAnswer(normalizeLabel(RadioQuestion(filler.radio)), filler.kb) = NoAnswer) =>
       LET yes == {i \in 1..Len(filler.radio.options) :
                     Includes(toLowerCase(filler.radio.options[i]), <<"y", "e", "s">>)}
       IN  IF yes # {}
           THEN /\ filler'.radio.checked \in yes
                /\ \A k \in yes : filler'.radio.checked <= k
           ELSE filler'.radio.checked = 1]_vars

\* C20 witness: with options No, Yes and no match the second option is checked
C20_YesNotFirst ==
  /\ filler.pc = "done"
  /\ findAnswer(normalizeLabel(RadioQuestion(filler.radio)), filler.kb) = NoAnswer
  /\ filler.radio.options = <<<<"N", "o">>, <<"Y", "e", "s">>>>
  /\ filler.radio.checked = 2

\* C21: for one job, a text field whose label has no knowledge-base match
\* gets exactly one unfilled-field row, however often the step loop hands
\* its screen to the step handler.
C21_OneUnmatchedEventPerJob ==
  modal.pc # "none" => Len(modal.loop.unfilled) <= 1

\* the failures of the step loop that mean the form is stuck: a cycled
\* fingerprint, the step ceiling, validation errors after clicking next
ValidationStuck == {"cycled", "exceeded", "validation_error"}

\* C22: a catch block that handles a ValidationStuck failure never grants a
\* retry: it leaves the retry counters as they are.
C22_ValidationStuckNotRetried ==
  [][(pc = "catch" /\ err \in ValidationStuck) => retryAttempts' = retryAttempts]_vars

\* the candidates of the current batch from the next one to be visited on
Candidates ==
  IF Platform = "linkedin"
  THEN SubSeq(jobCards, cardIdx, Len(jobCards))
  ELSE cardsToProcess

\* C23: when a catch block grants a retry, the retried job is placed behind
\* every candidate of the batch that has not been attempted yet.
C23_RetryRequeuedAtBack ==
  [][(pc = "catch" /\ retryAttempts' # retryAttempts) =>
       \E i \in 1..Len(Candidates') :
         /\ Candidates'[i] = jobId
         /\ \A k \in (i + 1)..Len(Candidates') :
              ~(/\ Candidates'[k] \in Jobs
                /\ Candidates'[k] # jobId
                /\ attempts[Candidates'[k]] = 0
                /\ ~hasApplied(Platform, Candidates'[k]))]_vars

\* an exception of a job attempt was caught and the block check that follows
\* it has not been made yet
BlockCheckPending == pc \in {"catch", "afterError"}

\* C24: between the exception of a job attempt and the block check that
\* follows it no record is written, so that a tripped detector leaves the
\* blocked record only.
C24_BlockCheckBeforeRecord ==
  [][(BlockCheckPending /\ BlockCheckPending') => applications' = applications]_vars

\* C25: in the scroll-loaded discovery loop a load attempt that adds cards
\* but no job identifier that is new counts as a no-new-identifier attempt:
\* it increments the counter of consecutive such attempts and does not
\* reset it.
C25_NoNewIdentifierCounts ==
  [][(/\ Running("jobright") /\ pc = "outer"
      /\ jobCards # <<>>
      /\ Len(jobCards') > Len(jobCards)
      /\ Unprocessed(jobCards') = <<>>) =>
       noNewJobsCount' = noNewJobsCount + 1]_vars

\* C26: every call of a platform function returns (or throws): a run that
\* has entered applyLinkedIn, applyIndeed, applyDice or applyJobright on a
\* finite listing reaches the end of that function.
C26_PlatformFunctionReturns ==
  (mainPc = "apply") ~> (pc \in {"returned", "threw", "threwSetup"})

\* C27: a batch that a platform loop takes from a re-read of the listing
\* holds no job identifier that the loop has already handled in this run.
C27_DiscoveryDeduplicates ==
  [][(mainPc = "apply" /\ pc = "outer" /\ pc' = "card") =>
       \A i \in 1..Len(Candidates') : Candidates'[i] \notin handled]_vars

\* the element handles of listing cards that a platform loop keeps from one
\* iteration to the next: applyLinkedIn re-queries the cards in every
\* iteration and keeps none, the other loops keep the rest of their batch
HeldHandles ==
  IF Platform = "linkedin" THEN <<>> ELSE cardsToProcess

\* C28: once a candidate's application went through (its detail view was
\* opened and the page went back to the listing) and once a retry is
\* granted after an exception, the loop holds no card handle that was
\* obtained before: the next candidate is resolved again.
C28_HandlesReResolved ==
  [][/\ (mainPc = "apply" /\ applied' = applied + 1) => HeldHandles' = <<>>
     /\ (pc = "catch" /\ retryAttempts' # retryAttempts) => HeldHandles' = <<>>]_vars

\* C29: after fillForm a visible select that showed its placeholder (the
\* option at index 0) and has other options that a selection mechanism can
\* set has one of those other options selected, whatever its label is and
\* whether or not the answer for the label resembles an option.
C29_SelectNeverLeftOnPlaceholder ==
  (/\ filler.pc = "done"
   /\ filler.select.visible
   /\ filler.select.mechanism # 0
   /\ Len(filler.select.options) > 1) =>
    filler.select.selectedIndex > 0

\* C30: every write that fillForm makes to apply a non-empty answer to a
\* text input is a single keystroke of typeWithDelay; the value is never
\* written by an instantaneous fill, also for a field without id and name
\* and when typing fails part-way.
C30_NeverInstantFill ==
  (filler.pc = "done" /\ filler.text.answer # NoAnswer /\ filler.text.answer # <<>>) =>
    \A i \in 1..Len(filler.text.writes) : filler.text.writes[i].by = "type"

\* C31: fillForm never raises: a driver operation that fails on one field
\* (visibility query, label extraction, click, option read) skips that field
\* only, and fillForm still ends with its return value.
C31_FillFormNeverRaises ==
  filler.pc # "threw"

\* a visible button of the page matches a selector of this class
VisibleOfClass(p, buttons, action) ==
  \E i \in 1..Len(buttons) :
    /\ buttons[i].visible
    /\ \E k \in 1..Len(buttonSelectors(p)) :
         buttonSelectors(p)[k].action = action /\ Matches(buttonSelectors(p)[k], buttons[i])

\* C32: on a screen handed to the step handler, a visible submit-class
\* control together with a visible continue-class control gives submitted;
\* a continue-class control is clicked (next, validation_error) only when no
\* submit-class control is visible; with neither visible the result is error.
C32_SubmitBeforeContinue ==
  [][(/\ modal.pc = "loop"
      /\ modal'.loop.stepCount = modal.loop.stepCount + 1
      /\ modal'.loop.outcome # "cycled"
      /\ ~FormStep(modal.form, modal'.loop.stepCount).raises) =>
       LET buttons == FormStep(modal.form, modal'.loop.stepCount).buttons
           submit == VisibleOfClass(modal.platform, buttons, "submit")
           continue == VisibleOfClass(modal.platform, buttons, "next")
       IN  /\ (submit /\ continue) => modal'.loop.outcome = "submitted"
           /\ modal'.loop.outcome \in {"running", "validation_error"} => ~submit
           /\ (~submit /\ ~continue) => modal'.loop.outcome = "error"]_vars

\* C33: fillForm leaves every already-filled field as it was: a text input
\* with a non-empty value, a select whose selected option is not its
\* placeholder, a radio group with a checked member, a checked checkbox; and
\* it does not touch hidden fields or a disabled text input.
C33_FilledFieldsUnchanged ==
  [][(filler.pc = "start" /\ filler'.pc \in {"done", "threw"}) =>
       /\ filler.text.value # <<>> => filler'.text.value = filler.text.value
       /\ filler.select.selectedIndex > 0 =>
            filler'.select.selectedIndex = filler.select.selectedIndex
       /\ filler.radio.checked # 0 => filler'.radio.checked = filler.radio.checked
       /\ filler.checkbox.checked =>
            filler'.checkbox.checked /\ filler'.checkbox.clicks = filler.checkbox.clicks
       /\ (~filler.text.visible \/ filler.text.disabled) =>
            /\ filler'.text.value = filler.text.value
            /\ filler'.text.writes = filler.text.writes
       /\ ~filler.select.visible => filler'.select.selectedIndex = filler.select.selectedIndex
       /\ ~filler.radio.visible => filler'.radio.checked = filler.radio.checked
       /\ ~filler.checkbox.visible => filler'.checkbox.checked = filler.checkbox.checked]_vars

\* optionTexts.findIndex((t) => t.trim() && !placeholderPattern.test(t.trim())):
\* the option index the safe default of a select chooses, -1 if there is none
SafeSelectDefault(options) ==
  FirstIndex([i \in 1..Len(options) |->
                options[i].text # <<>> /\ ~placeholderPattern(options[i].text)]) - 1

\* C38: a field whose normalized label is empty is never resolved to an
\* answer of the knowledge base: findAnswer returns null for the empty label
\* whatever the keys are, so a select showing its placeholder and a radio
\* group with nothing checked get their safe default, and a custom
\* dropdown is left alone.
C38_EmptyLabelNeverMatched ==
  [][(filler.pc = "start" /\ filler'.pc = "done") =>
       /\ findAnswer(<<>>, filler.kb) = NoAnswer
       /\ (/\ normalizeLabel(filler.select.label) = <<>>
           /\ filler.select.visible /\ filler.select.selectedIndex = 0
           /\ filler.select.mechanism \in {1, 2}
           /\ SafeSelectDefault(filler.select.options) >= 0) =>
            filler'.select.selectedIndex = SafeSelectDefault(filler.select.options)
       /\ (/\ normalizeLabel(RadioQuestion(filler.radio)) = <<>>
           /\ filler.radio.visible /\ filler.radio.checked = 0) =>
            filler'.radio.checked = SafeRadioDefault(filler.radio.options)
       /\ (/\ normalizeLabel(filler.dropdown.label) = <<>>
           /\ filler.dropdown.visible) =>
            filler'.dropdown.selected = 0 /\ filler'.dropdown.clicks = 0]_vars

AppliedInRun(j) ==
  \E i \in Rows :
    /\ applications[i].runId = runId
    /\ applications[i].platform = Platform
    /\ applications[i].jobId = j
    /\ applications[i].status \in {"submitted", "dry_run"}

\* C35: a step of a platform function moves at most one of the counters
\* applied, skipped, errors, and by one; a job that was counted as applied
\* in this run is not counted as an error afterwards, also when the
\* navigation back to the listing fails after the success record was written.
C35_OneCounterPerAttempt ==
  [][(mainPc = "apply" /\ mainPc' = "apply" /\ pc # "nav") =>
       /\ (applied' - applied) + (skipped' - skipped) + (errors' - errors) \in {0, 1}
       /\ applied' >= applied /\ skipped' >= skipped /\ errors' >= errors
       /\ (pc = "catch" /\ AppliedInRun(jobId)) => errors' = errors]_vars

\* C36: the summary a platform function returns agrees with getRunStats for
\* the run and the platform: applied is the number of submitted plus dry_run
\* rows, errors the number of error rows, skipped the number of skipped rows.
C36_SummaryMatchesLedger ==
  (mainPc = "apply" /\ pc = "returned") =>
    LET db == getRunStats(runId, Platform)
    IN  /\ applied = db.applied + db.dry_run
        /\ errors = db.errors
        /\ skipped = db.skipped

\* an earlier run has recorded dry_run for the job on the platform
DryRunRecordedEarlier(p, j) ==
  \E i \in RowsOf(p, j) : applications[i].status = "dry_run" /\ applications[i].runId < runId

\* C37: once a dry run has recorded dry_run for (platform, jobId), hasApplied
\* is true for the pair in every later run; such a run writes no row other
\* than already_applied for the job, and when it meets the job's card it
\* starts no attempt and makes no submission.
C37_DryRunBlocksLaterRuns ==
  /\ [](\A p \in Platforms : \A j \in Jobs :
          DryRunRecordedEarlier(p, j) =>
            /\ hasApplied(p, j)
            /\ \A k \in RowsOf(p, j) :
                 applications[k].runId = runId => applications[k].status = "already_applied")
  /\ [][(CurrentCard \in Jobs /\ DryRunRecordedEarlier(Platform, CurrentCard))
          => /\ attempts' = attempts
             /\ submitClicks' = submitClicks
             /\ \/ applications' = applications
                \/ applications' =
                     Append(applications, Row(Platform, CurrentCard, "already_applied"))]_vars

\* C37 witness: a real run is under way and has recorded already_applied for
\* a job whose dry_run row stems from an earlier run
C37_RealRunSkipsDryRunJob ==
  /\ mainPc = "apply" /\ ~dryRun
  /\ \E i \in Rows : \E k \in Rows :
       /\ applications[i].platform = applications[k].platform
       /\ applications[i].jobId = applications[k].jobId
       /\ applications[i].status = "dry_run"
       /\ applications[i].runId < runId
       /\ applications[k].runId = runId
       /\ applications[k].status = "already_applied"

\* C39: a platform function runs only after the login check of its platform
\* answered true; when the check answers false (its failed navigation
\* included) the platform gets the null marker, no row is written for it in
\* the run, and its browser context is closed.
C39_ApplyOnlyWhenLoggedIn ==
  /\ [](pc # "idle" => mainPc = "apply")
  /\ [][(mainPc # "apply" /\ mainPc' = "apply") =>
          /\ mainPc = "login"
          /\ UNCHANGED <<applications, runStats, openContexts, platIdx>>]_vars
  /\ [][(mainPc = "login" /\ mainPc' # "apply") =>
          /\ runStats' = [runStats EXCEPT ![Platform] = NullStats]
          /\ applications' = applications
          /\ openContexts' = openContexts - 1
          /\ pc' = "idle"]_vars
  /\ [](\A p \in Platforms :
          runStats[p] = NullStats =>
            \A i \in Rows : ~(applications[i].runId = runId /\ applications[i].platform = p))

\* C39 witness: the login check of one platform answered false, its context
\* is closed and no row of the run names it, and the next platform is being
\* applied to
C39_ExpiredThenNextPlatform ==
  /\ mainPc = "apply" /\ platIdx = 2
  /\ runStats[enabledPlatforms[1]] = NullStats
  /\ openContexts = 1
  /\ applications # <<>>
  /\ \A i \in Rows :
       ~(applications[i].runId = runId /\ applications[i].platform = enabledPlatforms[1])

====
